---- MODULE Spec2Model ----
(***************************************************************************)
(* Verification model of the content-generation pipeline:                  *)
(*   - the task registry (TaskManagerService, TaskRunner,                  *)
(*     ContentGenerationService, TaskContext),                             *)
(*   - the workflow orchestrator (EnhancedWorkflowOrchestrator),           *)
(*   - the model client (RealLLMService.callLLM).                          *)
(* Each subsystem has its own specification over the shared variables;     *)
(* the variables of the other subsystems stay at their initial value.      *)
(***************************************************************************)
EXTENDS Integers, Sequences, FiniteSets, TLC

(***************************************************************************)
(* Bounds                                                                  *)
(***************************************************************************)
\* longest user input, in characters; one more than the title keeps
MaxInputLen == 51
\* largest desiredWordCount: one word more than two chunks hold
MaxWordCount == 9001
\* longest list of progress steps: the initial step, the 100 of a workflow
\* and two beyond
MaxSteps == 103
\* number of task ids the registry can hand out
MaxTasks == 2
\* number of calls of runTask / generateContent / startTask in one behaviour
MaxCalls == 3
\* number of callLLM invocations in one behaviour of the model client
MaxLLMCalls == 1
\* largest number of queries a parsed search plan holds
MaxQueries == 2
\* number of section titles of the catalogue (sectionTitles, scaled down)
NumSections == 2
\* largest number of concepts term extraction yields
MaxTerms == 2
\* number of callLLM invocations of one run in flight at the same time
MaxConcurrent == 3
\* largest number of entries followed in a task's progress or prompt list
MaxEntries == 1
\* largest number of matches of the fallback regex in a content; one more
\* than the fallback keeps
MaxMatches == 11

TaskIds == 1..MaxTasks
RunIds == 1..MaxCalls
\* TaskContext.currentTaskId = null
NoTask == 0

VARIABLES
  tasks,          \* TaskManagerService.tasks: id -> [status, currentContent]
  stored,         \* localStorage['knowledge_tasks'], the persisted registry
  nextId,         \* next id generateId() hands out
  runs,           \* the asynchronous calls in flight or settled
  nextRun,        \* next free slot of runs
  currentTaskId,  \* TaskContext.currentTaskId
  llmEnv,         \* import.meta.env and the configured key, as callLLM reads them
  calls,          \* the callLLM invocations: position, attempts, requests sent
  nextCall,       \* next free slot of calls
  promptHistory,  \* localStorage['prompt_history'], the PromptTracker log
  wf,             \* one executeFullWorkflow run: stage, retry loop, results so far
  searchTasks,    \* executeSearches: the concurrent search tasks
  sectionTasks,   \* generateComprehensiveContent: the concurrent section tasks
  explanationTasks, \* generateDetailedConceptExplanations: the concurrent term tasks
  completionOrder,  \* the order in which the section or term tasks settled
  sectionResults, \* what await Promise.all(sectionTasks) resolved to, sorted
  knowledgeBaseResults, \* what await Promise.all(trackedTasks) resolved to
  sections,       \* the section blocks of the article body, once generated
  knowledgeBase,  \* the knowledge-base entries, once generated
  searchResults,  \* what executeSearches returned
  searchHistory,  \* localStorage[SEARCH_HISTORY_KEY], the persisted search records
  userInput,      \* rewritePrompt: the length of the userInput argument
  rewriteResult,  \* rewritePrompt: the {rewrittenPrompt, title} it returned
  searchPlan,     \* generateSearchPlan: the {queries} it returned
  stageCalls,     \* the callLLM invocations rewritePrompt and generateSearchPlan made
  desiredWordCount, \* generateLongContent: its desiredWordCount argument
  chunk,          \* generateLongContent: where it is, its loop index, its callLLM count
  fullContent,    \* generateLongContent: the chunks appended so far
  progressSteps,  \* ProgressTracker.progressSteps
  currentStep,    \* ProgressTracker.currentStep
  totalSteps,     \* ProgressTracker.totalSteps
  taskProgress,   \* TaskManagerService.tasks[id].progress.length
  registryError,  \* what the last updateTask / updateTaskProgress call threw
  contentMatches, \* extractComplexConcepts: the matches of the fallback regex in content
  extraction,     \* extractComplexConcepts: where it is, its loop index, its callLLM count
  extractedConcepts, \* extractComplexConcepts: the array it returned
  processedCount, \* generateDetailedConceptExplanations: let processedCount
  progressReports, \* the "Processing concept k/N" details reported so far
  registry,       \* TaskManagerService.tasks, with the progress and prompt lists
  taskStore,      \* localStorage['knowledge_tasks']: the string it holds, if any
  created,        \* the number of ids generateId() handed out to createTask
  starting,       \* the startTask calls in flight: the task object each one captured
  issuedBy        \* for each saved prompt record, the task of the run whose workflow made the call

taskVars == <<tasks, stored, nextId, runs, nextRun, currentTaskId>>
llmVars == <<llmEnv, calls, nextCall, promptHistory>>
flowVars == <<wf, searchTasks, sectionTasks, explanationTasks, completionOrder,
              sectionResults, knowledgeBaseResults, sections, knowledgeBase>>
\* the Search stage's results and persisted records, followed in SpecSearch
searchVars == <<searchResults, searchHistory>>
\* the arguments and results of the units that are followed on their own
promptVars == <<userInput, rewriteResult, searchPlan, stageCalls>>
chunkVars == <<desiredWordCount, chunk, fullContent>>
progressVars == <<progressSteps, currentStep, totalSteps>>
registryVars == <<taskProgress, registryError>>
conceptVars == <<contentMatches, extraction, extractedConcepts, processedCount,
                 progressReports>>
persistVars == <<registry, taskStore, created, starting>>
issuerVars == <<issuedBy>>
unitVars == <<promptVars, chunkVars, progressVars, registryVars, conceptVars,
              persistVars, issuerVars>>
vars == <<taskVars, llmVars, flowVars, searchVars, unitVars>>

\* what the operations of one subsystem leave alone
TaskFrame == UNCHANGED <<llmVars, flowVars, searchVars, unitVars>>
LLMFrame == UNCHANGED <<taskVars, flowVars, searchVars, unitVars>>
FlowFrame == UNCHANGED <<llmVars, nextId, runs, nextRun, searchVars, unitVars>>

(***************************************************************************)
(* Task registry: TaskManagerService                                       *)
(***************************************************************************)
\* Task['status'], with "absent" for an id that is not a key of the registry
Statuses == {"absent", "created", "running", "completed", "failed"}

\* currentContent is <<>> while undefined and <<c>> once set to c
AbsentTask == [status |-> "absent", currentContent |-> <<>>]

\* the GeneratedContent an orchestrator run hands back to the runner
WorkflowContent ==
  [mainContent |-> <<[title |-> 1, kind |-> "content"]>>, knowledgeBase |-> <<>>]

Exists(ts, id) == id \in TaskIds /\ ts[id].status # "absent"

\* createTask: a fresh record with status created and no content
NewTask == [status |-> "created", currentContent |-> <<>>]

\* updateTask: the spread {...old, ...updates}; only the given keys change
UpdateTask(ts, id, updates) ==
  [ts EXCEPT ![id] = [f \in DOMAIN ts[id] |->
                        IF f \in DOMAIN updates THEN updates[f] ELSE ts[id][f]]]

\* updateTask replaces the registry entry by a new object, so a reference to
\* the old object held by a startTask in flight no longer reaches the registry
Detach(rs, id) ==
  [r \in DOMAIN rs |->
     IF rs[r].kind = "start" /\ rs[r].outer = id /\ rs[r].pc \in {"workflow", "saving"}
     THEN [rs[r] EXCEPT !.stale = TRUE] ELSE rs[r]]

IdleRun == [kind |-> "none", pc |-> "idle", task |-> NoTask, outer |-> NoTask,
            stale |-> FALSE, result |-> "none"]

\* the registry before any task was created
TasksIdle ==
  /\ tasks = [t \in TaskIds |-> AbsentTask]
  /\ stored = [t \in TaskIds |-> AbsentTask]
  /\ nextId = 1
  /\ runs = [r \in RunIds |-> IdleRun]
  /\ nextRun = 1
  /\ currentTaskId = NoTask

\* the model client before any call, in direct mode with a key configured
LLMIdle ==
  /\ llmEnv = [useBackend |-> FALSE, hasKey |-> TRUE]
  /\ calls = <<>>
  /\ nextCall = 1
  /\ promptHistory = <<>>

\* a result that has not been returned yet
NoResult == [kind |-> "none"]

\* no unit has been called on its own
UnitsIdle ==
  /\ userInput = 0
  /\ rewriteResult = NoResult
  /\ searchPlan = NoResult
  /\ stageCalls = [rewrite |-> 0, plan |-> 0]
  /\ desiredWordCount = 0
  /\ chunk = [pc |-> "idle", i |-> 0, calls |-> 0]
  /\ fullContent = <<>>
  /\ progressSteps = <<>>
  /\ currentStep = 0
  /\ totalSteps = 0
  /\ taskProgress = [t \in TaskIds |-> 0]
  /\ registryError = "none"
  /\ contentMatches = 0
  /\ extraction = [pc |-> "idle", attempt |-> 0, calls |-> 0, failed |-> 0]
  /\ extractedConcepts = NoResult
  /\ processedCount = 0
  /\ progressReports = <<>>
  /\ registry = [t \in TaskIds |-> [status |-> "absent"]]
  /\ taskStore = [item |-> FALSE, entries |-> {}]
  /\ created = 0
  /\ starting = [t \in TaskIds |-> "none"]
  /\ issuedBy = <<>>

\* the orchestrator before a run
FlowIdle ==
  /\ wf = [pc |-> "idle", phase |-> "none", attempt |-> 0, task |-> NoTask,
           kw |-> FALSE, rewritten |-> "none", item |-> 0]
  /\ searchTasks = <<>>
  /\ sectionTasks = <<>>
  /\ explanationTasks = <<>>
  /\ completionOrder = <<>>
  /\ sectionResults = <<>>
  /\ knowledgeBaseResults = <<>>
  /\ sections = <<>>
  /\ knowledgeBase = <<>>
  /\ searchResults = <<>>
  /\ searchHistory = <<>>
  /\ UnitsIdle

TaskInit == TasksIdle /\ LLMIdle /\ FlowIdle

\* TaskManagerService.createTask
CreateTask ==
  /\ nextId <= MaxTasks
  /\ tasks' = [tasks EXCEPT ![nextId] = NewTask]
  /\ stored' = tasks'
  /\ nextId' = nextId + 1
  /\ UNCHANGED <<runs, nextRun, currentTaskId>>
  /\ TaskFrame

\* TaskManagerService.deleteTask
DeleteTask(t) ==
  /\ Exists(tasks, t)
  /\ tasks' = [tasks EXCEPT ![t] = AbsentTask]
  /\ stored' = tasks'
  /\ runs' = Detach(runs, t)
  /\ UNCHANGED <<nextId, nextRun, currentTaskId>>
  /\ TaskFrame

(***************************************************************************)
(* TaskRunner.runTask, split at its await of executeFullWorkflow           *)
(***************************************************************************)
\* the synchronous prefix: set the context, mark the task running
RunnerBegin(ts, id) == UpdateTask(ts, id, [status |-> "running"])

\* the success continuation: store the content and mark the task completed.
\* updateTask throws when the task was deleted meanwhile; the catch block's
\* updateTask throws again, and the registry is left as it is.
RunnerSuccess(ts, id, content) ==
  IF Exists(ts, id)
  THEN UpdateTask(ts, id, [currentContent |-> <<content>>, status |-> "completed"])
  ELSE ts

\* the catch block: only the status is overwritten
RunnerFailure(ts, id) ==
  IF Exists(ts, id) THEN UpdateTask(ts, id, [status |-> "failed"]) ELSE ts

\* a variant that clears the context at the end of the try block only
ClearContextInTry(cur, threw) == IF threw THEN cur ELSE NoTask
\* the finally block: TaskContext.setCurrentTask(null), however the try ended
ClearContext(cur, threw) == NoTask

\* ContentGenerationService.runTask(taskId, config) up to the first await
CallRunTask(t) ==
  /\ nextRun <= MaxCalls
  /\ nextRun' = nextRun + 1
  /\ IF Exists(tasks, t)
     THEN /\ tasks' = RunnerBegin(tasks, t)
          /\ stored' = tasks'
          /\ currentTaskId' = t
          /\ runs' = [Detach(runs, t) EXCEPT ![nextRun] =
                        [IdleRun EXCEPT !.kind = "run", !.pc = "workflow", !.task = t]]
     ELSE \* getTask finds nothing: runTask rejects before its try block
          /\ runs' = [runs EXCEPT ![nextRun] =
                        [IdleRun EXCEPT !.kind = "run", !.pc = "done", !.task = t,
                                        !.result = "threw"]]
          /\ UNCHANGED <<tasks, stored, currentTaskId>>
  /\ UNCHANGED nextId
  /\ TaskFrame

\* ContentGenerationService.generateContent up to the first await:
\* createTask, then runTask on the new task
CallGenerateContent ==
  /\ nextRun <= MaxCalls
  /\ nextId <= MaxTasks
  /\ nextRun' = nextRun + 1
  /\ nextId' = nextId + 1
  /\ tasks' = RunnerBegin([tasks EXCEPT ![nextId] = NewTask], nextId)
  /\ stored' = tasks'
  /\ currentTaskId' = nextId
  /\ runs' = [runs EXCEPT ![nextRun] =
                [IdleRun EXCEPT !.kind = "gen", !.pc = "workflow", !.task = nextId]]
  /\ TaskFrame

\* TaskManagerService.startTask up to the first await: the task is marked
\* running in place, then generateContent creates and runs a task of its own
CallStartTask(t) ==
  /\ nextRun <= MaxCalls
  /\ nextRun' = nextRun + 1
  /\ IF Exists(tasks, t)
     THEN /\ nextId <= MaxTasks
          /\ nextId' = nextId + 1
          /\ tasks' = RunnerBegin([tasks EXCEPT ![t].status = "running",
                                                ![nextId] = NewTask], nextId)
          /\ stored' = tasks'
          /\ currentTaskId' = nextId
          /\ runs' = [runs EXCEPT ![nextRun] =
                        [IdleRun EXCEPT !.kind = "start", !.pc = "workflow",
                                        !.task = nextId, !.outer = t]]
     ELSE /\ runs' = [runs EXCEPT ![nextRun] =
                        [IdleRun EXCEPT !.kind = "start", !.pc = "done", !.outer = t,
                                        !.result = "threw"]]
          /\ UNCHANGED <<tasks, stored, nextId, currentTaskId>>
  /\ TaskFrame

\* startTask's continuation after generateContent resolved: the captured
\* task object gets the content and status completed
StartSuccess(ts, r, content) ==
  IF runs[r].stale THEN ts
  ELSE [ts EXCEPT ![runs[r].outer].currentContent = <<content>>,
                  ![runs[r].outer].status = "completed"]

\* a variant whose catch block only logs the error
StartFailureLogged(ts, r) == ts
\* startTask's catch block: the captured task object is marked failed
StartFailure(ts, r) ==
  IF runs[r].stale THEN ts ELSE [ts EXCEPT ![runs[r].outer].status = "failed"]

\* executeFullWorkflow resolves with a GeneratedContent
WorkflowReturns(r) ==
  /\ runs[r].pc = "workflow"
  /\ currentTaskId' = ClearContext(currentTaskId, ~Exists(tasks, runs[r].task))
  /\ IF Exists(tasks, runs[r].task)
     THEN \* runner returns; runTask goes on to await HistoryService.saveToHistory
          /\ tasks' = RunnerSuccess(tasks, runs[r].task, WorkflowContent)
          /\ stored' = tasks'
          /\ runs' = [Detach(runs, runs[r].task) EXCEPT ![r].pc = "saving"]
     ELSE \* updateTask throws not-found, in the try block and again in the catch
          /\ tasks' = IF runs[r].kind = "start" THEN StartFailure(tasks, r) ELSE tasks
          /\ stored' = IF runs[r].kind = "start" THEN tasks' ELSE stored
          /\ runs' = [runs EXCEPT ![r].pc = "done",
                        ![r].result = IF runs[r].kind = "start" THEN "returned" ELSE "threw"]
  /\ UNCHANGED <<nextId, nextRun>>
  /\ TaskFrame

\* executeFullWorkflow rejects
WorkflowThrows(r) ==
  /\ runs[r].pc = "workflow"
  /\ currentTaskId' = ClearContext(currentTaskId, TRUE)
  /\ LET afterRunner == RunnerFailure(tasks, runs[r].task)
         rs == IF Exists(tasks, runs[r].task) THEN Detach(runs, runs[r].task) ELSE runs
     IN /\ tasks' = IF runs[r].kind = "start"
                    THEN (IF rs[r].stale THEN afterRunner
                          ELSE [afterRunner EXCEPT ![runs[r].outer].status = "failed"])
                    ELSE afterRunner
        /\ runs' = [rs EXCEPT ![r].pc = "done",
                      ![r].result = IF runs[r].kind = "start" THEN "returned" ELSE "threw"]
  /\ stored' = IF Exists(tasks, runs[r].task) \/ runs[r].kind = "start"
               THEN tasks' ELSE stored
  /\ UNCHANGED <<nextId, nextRun>>
  /\ TaskFrame

\* HistoryService.saveToHistory resolves: runTask returns the content
HistorySaved(r) ==
  /\ runs[r].pc = "saving"
  /\ tasks' = IF runs[r].kind = "start" THEN StartSuccess(tasks, r, WorkflowContent)
              ELSE tasks
  /\ stored' = IF runs[r].kind = "start" THEN tasks' ELSE stored
  /\ runs' = [runs EXCEPT ![r].pc = "done", ![r].result = "returned"]
  /\ UNCHANGED <<nextId, nextRun, currentTaskId>>
  /\ TaskFrame

\* HistoryService.saveToHistory rethrows its error: runTask rejects
HistorySaveFails(r) ==
  /\ runs[r].pc = "saving"
  /\ tasks' = IF runs[r].kind = "start" THEN StartFailure(tasks, r) ELSE tasks
  /\ stored' = IF runs[r].kind = "start" THEN tasks' ELSE stored
  /\ runs' = [runs EXCEPT ![r].pc = "done",
                ![r].result = IF runs[r].kind = "start" THEN "returned" ELSE "threw"]
  /\ UNCHANGED <<nextId, nextRun, currentTaskId>>
  /\ TaskFrame

\* the first statements of callLLM, whoever calls it (the workflow of a run
\* in progress, or code outside any run): the current task is read from the
\* context and the prompt record is saved with it
TrackPrompt ==
  /\ nextCall <= MaxLLMCalls
  /\ nextCall' = nextCall + 1
  /\ promptHistory' = Append(promptHistory,
                             [id |-> nextCall, taskId |-> currentTaskId,
                              response |-> "none", status |-> "none"])
  /\ UNCHANGED <<taskVars, llmEnv, calls, flowVars, searchVars, unitVars>>

TaskNext ==
  \/ CreateTask
  \/ \E t \in TaskIds : DeleteTask(t)
  \/ \E t \in TaskIds : CallRunTask(t)
  \/ CallGenerateContent
  \/ \E t \in TaskIds : CallStartTask(t)
  \/ \E r \in RunIds : WorkflowReturns(r)
  \/ \E r \in RunIds : WorkflowThrows(r)
  \/ \E r \in RunIds : HistorySaved(r)
  \/ \E r \in RunIds : HistorySaveFails(r)

SpecTasks == TaskInit /\ [][TaskNext]_vars

\* every awaited operation settles: the workflow of a run resolves or
\* rejects, and so does the history save that follows it
TaskFairness ==
  \A r \in RunIds :
    /\ WF_vars(WorkflowReturns(r) \/ WorkflowThrows(r))
    /\ WF_vars(HistorySaved(r) \/ HistorySaveFails(r))

SpecTasksFair == SpecTasks /\ TaskFairness

\* the registry together with the prompt records made by model calls
ContextNext == TrackPrompt \/ TaskNext

SpecContext == TaskInit /\ [][ContextNext]_vars

(***************************************************************************)
(* Model client: RealLLMService.callLLM and PromptTracker                  *)
(***************************************************************************)
\* const maxRetries = 3
maxRetries == 3
\* the cap of the prompt audit log in PromptTracker.savePrompt
maxPromptHistory == 1000

LLMCallIds == 1..MaxLLMCalls

\* the loop condition: while (attempts <= maxRetries)
LoopContinues(a) == a <= maxRetries

RetryAllowedOffByOne(a) == a <= maxRetries + 1
\* the retry test after attempts++: if (attempts <= maxRetries)
RetryAllowed(a) == a <= maxRetries

\* a variant that computes the delay from the attempts before the increment
BackoffDelayBeforeIncrement(a) == 2 ^ (a - 1)
\* Math.pow(2, attempts) * 1000 ms, in seconds
BackoffDelay(a) == 2 ^ a

OuterCatchRethrows == "threw"
\* what the outer catch hands back for a non-rate-limit error: the string
\* `Error occurred while calling the LLM: ...`
OuterCatchResult == "error"

\* what a backend request can come back with
BackendOutcomes ==
  {"ok",             \* success: true with a string result
   "badResult",      \* success: true, result is not a string
   "rate",           \* HTTP 429, or a non-ok body containing limit_requests
   "codeLimit",      \* success: false with error.code = limit_requests
   "codeLimitMarked",\* the same, error.message naming the rate limit
   "throwPlain",     \* other HTTP status, network error or malformed body
   "throwMarked"}    \* an error whose message names the rate limit

\* what a direct request can come back with
DirectOutcomes ==
  {"ok",             \* a completion whose content is a string
   "badContent",     \* a completion whose content is null or not a string
   "rate",           \* HTTP 429, or an error body containing limit_requests
   "httpError",      \* any other non-ok status
   "netError",       \* fetch rejects: network error, CORS or timeout
   "malformed",      \* the body fails to parse
   "malformedMarked"}\* the same, the parse error's message containing 429

NewCall == [pc |-> "start", attempts |-> 0, backendSent |-> 0, directSent |-> 0,
            waits |-> <<>>, onlyRate |-> TRUE, updates |-> <<>>,
            pending |-> "none", result |-> "none", saved |-> FALSE]

\* a variant that never drops a record
SavePromptUncapped(h, id, taskId) ==
  Append(h, [id |-> id, taskId |-> taskId, response |-> "none", status |-> "none"])
\* PromptTracker.savePrompt: append, then drop the oldest beyond the cap
SavePrompt(h, id, taskId) ==
  LET updatedHistory == Append(h, [id |-> id, taskId |-> taskId,
                                   response |-> "none", status |-> "none"])
  IN IF Len(updatedHistory) > maxPromptHistory THEN Tail(updatedHistory)
     ELSE updatedHistory

\* a variant that writes to the newest record of the log
UpdatePromptNewest(h, id, response, status) ==
  [i \in DOMAIN h |->
     IF i = Len(h) THEN [h[i] EXCEPT !.response = response, !.status = status]
     ELSE h[i]]
\* PromptTracker.updatePrompt: overwrite response and status of the record
\* with this id, if the log still holds it
UpdatePrompt(h, id, response, status) ==
  [i \in DOMAIN h |->
     IF h[i].id = id THEN [h[i] EXCEPT !.response = response, !.status = status]
     ELSE h[i]]

\* return <value>
Finish(c, res) == [c EXCEPT !.pc = "done", !.result = res]

\* await HistoryService.savePromptToHistory(...) inside its own try/catch,
\* then return <value>
ToHistory(c, res) == [c EXCEPT !.pc = "history", !.pending = res]

\* a call of PromptTracker.updatePrompt with this response and status
Updated(c, response, status) ==
  [c EXCEPT !.updates = Append(@, [response |-> response, status |-> status])]

\* await new Promise(resolve => setTimeout(resolve, delay)); continue
Retry(c) == [c EXCEPT !.pc = "backoff", !.waits = Append(@, BackoffDelay(c.attempts))]

\* retries exhausted on the direct path or in the outer catch
Exhausted(c) == ToHistory(Updated(c, "sentinel", "error"), "sentinel")

\* a variant that returns the sentinel without touching the prompt record
BackendExhaustedUnrecorded(c) == Finish(c, "sentinel")
\* retries exhausted in the backend catch: no history save
BackendExhausted(c) == Finish(Updated(c, "sentinel", "error"), "sentinel")

\* attempts++; retry while allowed, else give the sentinel
RateLimited(c) ==
  LET c1 == [c EXCEPT !.attempts = @ + 1]
  IN IF RetryAllowed(c1.attempts) THEN Retry(c1) ELSE Exhausted(c1)

\* catch (error) of the while body
OuterCatch(c, marked) ==
  IF marked THEN RateLimited(c)
  ELSE ToHistory(Updated(c, "error", "error"), OuterCatchResult)

\* the part of the loop body after the backend attempt: mock or direct request
DirectPart(c) ==
  IF ~llmEnv.hasKey THEN ToHistory(Updated(c, "mock", "success"), "mock")
  ELSE [c EXCEPT !.pc = "direct", !.directSent = @ + 1]

\* the top of the while loop
Iterate(c) ==
  IF ~LoopContinues(c.attempts) THEN Finish(c, "undefined")
  ELSE IF llmEnv.useBackend THEN [c EXCEPT !.pc = "backend", !.backendSent = @ + 1]
  ELSE DirectPart(c)

\* catch (backendError)
BackendCatch(c, marked) ==
  IF marked
  THEN LET c1 == [c EXCEPT !.attempts = @ + 1]
       IN IF RetryAllowed(c1.attempts) THEN Retry(c1) ELSE BackendExhausted(c1)
  ELSE DirectPart(c)

\* the backend branch, from the settled fetch to its return, retry or catch
BackendResponse(c, o) ==
  LET n == [c EXCEPT !.onlyRate = @ /\ o = "rate"]
      n1 == [n EXCEPT !.attempts = @ + 1]
  IN CASE o = "ok" -> Finish(Updated(n, "content", "success"), "content")
       [] o = "badResult" -> BackendCatch(Updated(n, "content", "success"), FALSE)
       [] o = "rate" ->
            IF RetryAllowed(n1.attempts) THEN Retry(n1)
            ELSE \* throws `Rate limit exceeded after ...`, which the catch
                 \* does not recognise (it looks for 'rate limit')
                 BackendCatch(n1, FALSE)
       [] o \in {"codeLimit", "codeLimitMarked"} ->
            IF RetryAllowed(n1.attempts) THEN Retry(n1)
            ELSE BackendCatch(n1, o = "codeLimitMarked")
       [] o = "throwPlain" -> BackendCatch(n, FALSE)
       [] o = "throwMarked" -> BackendCatch(n, TRUE)

\* a variant that treats every failed request like a rate-limit response
DirectResponseRetrying(c, o) ==
  IF o = "ok" THEN ToHistory(Updated(c, "content", "success"), "content")
  ELSE RateLimited(c)
\* the direct branch, from the settled fetch to its return, retry or catch
DirectResponse(c, o) ==
  LET n == [c EXCEPT !.onlyRate = @ /\ o = "rate"]
  IN CASE o = "ok" -> ToHistory(Updated(n, "content", "success"), "content")
       [] o = "badContent" -> OuterCatch(Updated(n, "content", "success"), FALSE)
       [] o = "rate" -> RateLimited(n)
       [] o = "httpError" -> ToHistory(Updated(n, "error", "error"), "error")
       [] o = "netError" -> ToHistory(Updated(n, "error", "error"), "error")
       [] o = "malformed" -> OuterCatch(n, FALSE)
       [] o = "malformedMarked" -> OuterCatch(n, TRUE)

\* the updatePrompt calls c2 made beyond those of c1, applied to the log
ApplyUpdates(h, id, c1, c2) ==
  IF Len(c2.updates) > Len(c1.updates)
  THEN UpdatePrompt(h, id, c2.updates[Len(c2.updates)].response,
                    c2.updates[Len(c2.updates)].status)
  ELSE h

LLMInit ==
  /\ TasksIdle
  /\ FlowIdle
  /\ llmEnv \in [useBackend : BOOLEAN, hasKey : BOOLEAN]
  /\ calls = <<>>
  /\ nextCall = 1
  /\ promptHistory = <<>>

\* callLLM up to its first await: the prompt is saved, the loop is entered
CallLLM ==
  /\ nextCall <= MaxLLMCalls
  /\ nextCall' = nextCall + 1
  /\ LET c == Iterate([NewCall EXCEPT !.saved = TRUE])
     IN /\ calls' = Append(calls, c)
        /\ promptHistory' = ApplyUpdates(SavePrompt(promptHistory, nextCall, currentTaskId),
                                         nextCall, NewCall, c)
  /\ UNCHANGED llmEnv
  /\ LLMFrame

\* the backend fetch settles
BackendSettles(i, o) ==
  /\ i \in DOMAIN calls
  /\ calls[i].pc = "backend"
  /\ LET c == BackendResponse(calls[i], o)
     IN /\ calls' = [calls EXCEPT ![i] = c]
        /\ promptHistory' = ApplyUpdates(promptHistory, i, calls[i], c)
  /\ UNCHANGED <<llmEnv, nextCall>>
  /\ LLMFrame

\* the direct fetch settles
DirectSettles(i, o) ==
  /\ i \in DOMAIN calls
  /\ calls[i].pc = "direct"
  /\ LET c == DirectResponse(calls[i], o)
     IN /\ calls' = [calls EXCEPT ![i] = c]
        /\ promptHistory' = ApplyUpdates(promptHistory, i, calls[i], c)
  /\ UNCHANGED <<llmEnv, nextCall>>
  /\ LLMFrame

\* the backoff timer fires: continue with the next loop iteration
BackoffElapsed(i) ==
  /\ i \in DOMAIN calls
  /\ calls[i].pc = "backoff"
  /\ LET c == Iterate(calls[i])
     IN /\ calls' = [calls EXCEPT ![i] = c]
        /\ promptHistory' = ApplyUpdates(promptHistory, i, calls[i], c)
  /\ UNCHANGED <<llmEnv, nextCall>>
  /\ LLMFrame

\* HistoryService.savePromptToHistory settles, resolved or rejected; a
\* rejection is caught and logged, and callLLM returns either way
HistorySaveSettles(i, ok) ==
  /\ i \in DOMAIN calls
  /\ calls[i].pc = "history"
  /\ calls' = [calls EXCEPT ![i] = Finish(calls[i], calls[i].pending)]
  /\ UNCHANGED <<llmEnv, nextCall, promptHistory>>
  /\ LLMFrame

LLMNext ==
  \/ CallLLM
  \/ \E i \in LLMCallIds, o \in BackendOutcomes : BackendSettles(i, o)
  \/ \E i \in LLMCallIds, o \in DirectOutcomes : DirectSettles(i, o)
  \/ \E i \in LLMCallIds : BackoffElapsed(i)
  \/ \E i \in LLMCallIds, ok \in BOOLEAN : HistorySaveSettles(i, ok)

SpecLLM == LLMInit /\ [][LLMNext]_vars

(***************************************************************************)
(* Workflow orchestrator: EnhancedWorkflowOrchestrator.executeFullWorkflow *)
(* wrapped by TaskRunner.runTask.  A model call of the orchestrator is a   *)
(* call of llmService.callLLM that settles with a response of some class   *)
(* or with a rejection.                                                    *)
(***************************************************************************)
\* for (let attempt = 0; attempt < 3; attempt++)
MaxAttempts == 3
\* the number of queries of the fallback search plan
FallbackQueries == 5

\* if (attempt === 2)
LastAttempt(a) == a = MaxAttempts - 1

\* the flow variables as one value, so that a step is a function on it
Cur == [wf |-> wf, searchTasks |-> searchTasks, sectionTasks |-> sectionTasks,
        explanationTasks |-> explanationTasks, completionOrder |-> completionOrder,
        sectionResults |-> sectionResults, knowledgeBaseResults |-> knowledgeBaseResults,
        sections |-> sections, knowledgeBase |-> knowledgeBase]

\* a sequential stage issues its first model call
Calling(w, stage) == [w EXCEPT !.pc = stage, !.phase = "calling", !.attempt = 0]

\* the retry loop of a sequential stage after a response it cannot use and
\* that did not throw: the next attempt follows at once, if there is one
NextAttempt(f, exhausted) ==
  IF f.wf.attempt + 1 < MaxAttempts THEN [f EXCEPT !.wf.attempt = @ + 1]
  ELSE exhausted

\* the catch block of a sequential stage: give up on the last attempt, else
\* await this.delay(...)
CatchAttempt(f, exhausted) ==
  IF LastAttempt(f.wf.attempt) THEN exhausted ELSE [f EXCEPT !.wf.phase = "delay"]

\* an exception leaves executeFullWorkflow
Throws(f) == [f EXCEPT !.wf.pc = "failed", !.wf.phase = "none"]

\* a variant that goes on as soon as one task has settled (Promise.race)
AnySettled(ts) == \E i \in DOMAIN ts : ts[i].phase = "done"
\* await Promise.all(tasks) goes on once every task has settled
AllSettled(ts) == \A i \in DOMAIN ts : ts[i].phase = "done"

\* a concurrent task that has just issued its first model call
NewTaskCall == [phase |-> "calling", attempt |-> 0, result |-> "none"]

(* Step 1: rewritePrompt *)
RewriteOutcomes == {"usable", "unusable", "throw"}

RewriteDone(f, how) == [f EXCEPT !.wf = Calling([@ EXCEPT !.rewritten = how], "plan")]

RewriteResponse(f, o) ==
  CASE o = "usable" -> RewriteDone(f, "rewritten")
    [] o = "unusable" -> NextAttempt(f, RewriteDone(f, "raw"))
    [] o = "throw" -> CatchAttempt(f, RewriteDone(f, "raw"))

(* Step 2: generateSearchPlan; step 3: executeSearches *)
PlanOutcomes ==
  {[kind |-> k, n |-> 0] : k \in {"throw", "invalid", "badShape"}}
    \cup {[kind |-> "valid", n |-> q] : q \in 0..MaxQueries}

\* executeSearches: one task per query, all started at once; with no query
\* Promise.all resolves at once and the closing delay follows
StartSearches(f, q) ==
  [f EXCEPT !.wf = [@ EXCEPT !.pc = "search", !.attempt = 0,
                             !.phase = IF q = 0 THEN "delay" ELSE "calling"],
            !.searchTasks = [i \in 1..q |-> NewTaskCall],
            !.completionOrder = <<>>]

\* a variant whose catch rethrows on the last attempt, as summarize does
PlanResponseRethrowing(f, o) ==
  CASE o.kind = "valid" -> StartSearches(f, o.n)
    [] o.kind = "badShape" -> Throws(f)
    [] o.kind \in {"throw", "invalid"} -> CatchAttempt(f, Throws(f))
PlanResponse(f, o) ==
  CASE o.kind = "valid" -> StartSearches(f, o.n)
    [] o.kind = "badShape" -> \* queries is not an array of strings
         Throws(f)
    [] o.kind \in {"throw", "invalid"} -> CatchAttempt(f, StartSearches(f, FallbackQueries))

SearchOutcomes == {"ok", "throw"}

\* a variant whose search task lets the exception through, rejecting the batch
SearchResponseRejecting(f, i, o) ==
  IF o = "throw" THEN Throws(f)
  ELSE [f EXCEPT !.searchTasks[i] = [@ EXCEPT !.phase = "done", !.result = "record"],
                 !.wf.phase = IF \A j \in DOMAIN f.searchTasks \ {i} :
                                    f.searchTasks[j].phase = "done"
                                 THEN "delay" ELSE @]
\* one search task settles: the record of a successful search, or the error
\* record the task's catch block returns
SearchResponse(f, i, o) ==
  LET ts == [f.searchTasks EXCEPT ![i] =
               [@ EXCEPT !.phase = "done",
                         !.result = IF o = "ok" THEN "record" ELSE "errorRecord"]]
  IN [f EXCEPT !.searchTasks = ts,
               !.wf.phase = IF AllSettled(ts) THEN "delay" ELSE @]

(* Step 4: summarizeSearchResults; step 5: generateComprehensiveContent *)
SummaryOutcomes == {"ok", "throw"}

StartSections(f) ==
  [f EXCEPT !.wf = [@ EXCEPT !.pc = "sections", !.phase = "calling", !.attempt = 0],
            !.searchTasks = <<>>,
            !.sectionTasks = [i \in 1..NumSections |-> NewTaskCall],
            !.completionOrder = <<>>]

SummaryResponse(f, o) ==
  CASE o = "ok" -> StartSections(f)
    [] o = "throw" -> CatchAttempt(f, Throws(f))

\* the tasks of a batch that are still running once the batch was awaited
Unsettled(ts) == [i \in {j \in DOMAIN ts : ts[j].phase # "done"} |-> ts[i]]

\* finalize, create the content nodes, assemble the GeneratedContent, return
Assemble(f) == [f EXCEPT !.wf.pc = "done", !.wf.phase = "none"]

\* a variant that generates the knowledge base whatever the setting
AfterSectionsAlwaysExtracts(f) == [f EXCEPT !.wf = Calling(@, "extract")]
\* after the section stage: the knowledge base, if keyword extraction is on
AfterSections(f) ==
  IF f.wf.kw THEN [f EXCEPT !.wf = Calling(@, "extract")] ELSE Assemble(f)

SectionOutcomes == {"long", "short", "throw"}

\* a variant without the length test: whatever callLLM resolves to is kept
SectionTaskResponseUnchecked(t, o) ==
  CASE o \in {"long", "short"} -> [t EXCEPT !.phase = "done", !.result = "content"]
    [] o = "throw" -> IF LastAttempt(t.attempt)
                      THEN [t EXCEPT !.phase = "done", !.result = "placeholder"]
                      ELSE [t EXCEPT !.phase = "delay"]
\* one attempt of a concurrent section task settles: content above the length
\* threshold is returned; a shorter response falls through to the next loop
\* iteration, and out of the loop (returning undefined) after the third; an
\* exception yields the placeholder on the last attempt, else a delay
SectionTaskResponse(t, o) ==
  CASE o = "long" -> [t EXCEPT !.phase = "done", !.result = "content"]
    [] o = "short" -> IF t.attempt + 1 < MaxAttempts THEN [t EXCEPT !.attempt = @ + 1]
                      ELSE [t EXCEPT !.phase = "done", !.result = "undefined"]
    [] o = "throw" -> IF LastAttempt(t.attempt)
                      THEN [t EXCEPT !.phase = "done", !.result = "placeholder"]
                      ELSE [t EXCEPT !.phase = "delay"]

\* Promise.all: the results in the order of the tasks, not of completion
PromiseAll(ts) == [i \in 1..Len(ts) |-> [index |-> i, kind |-> ts[i].result]]

RECURSIVE Insert(_, _)
Insert(r, sorted) ==
  IF sorted = <<>> THEN <<r>>
  ELSE IF r.index < Head(sorted).index THEN <<r>> \o sorted
  ELSE <<Head(sorted)>> \o Insert(r, Tail(sorted))

RECURSIVE InsertionSort(_)
InsertionSort(rs) == IF rs = <<>> THEN <<>> ELSE Insert(Head(rs), InsertionSort(Tail(rs)))

\* sectionResults.sort((a, b) => a.index - b.index): undefined elements go
\* last without being compared
SortByIndex(rs) ==
  InsertionSort(SelectSeq(rs, LAMBDA r : r.kind # "undefined"))
    \o SelectSeq(rs, LAMBDA r : r.kind = "undefined")

\* a variant without the sort: the results as the tasks completed
ResultsInCompletionOrder(ts, order) ==
  [k \in 1..Len(order) |-> [index |-> order[k], kind |-> ts[order[k]].result]]
\* sortedResults: what Promise.all resolved to, sorted by index
SectionResults(ts, order) == SortByIndex(PromiseAll(ts))

\* the catch of the parallel batch: the sections are generated one by one
StartSequentialSections(f) ==
  [f EXCEPT !.wf = [@ EXCEPT !.pc = "seqSections", !.phase = "calling",
                             !.attempt = 0, !.item = 1],
            !.sectionTasks = Unsettled(@),
            !.sections = <<>>]

\* the continuation of await Promise.all(sectionTasks): mapping the results
\* to blocks throws on an undefined result
SectionsSettled(f) ==
  LET rs == SectionResults(f.sectionTasks, f.completionOrder)
      g == [f EXCEPT !.sectionResults = rs]
  IN IF \E k \in DOMAIN rs : rs[k].kind = "undefined"
     THEN StartSequentialSections(g)
     ELSE AfterSections([g EXCEPT !.sectionTasks = Unsettled(@),
                                  !.sections = [k \in DOMAIN rs |->
                                     [title |-> rs[k].index, kind |-> rs[k].kind]]])

SectionResponse(f, i, o) ==
  LET t == SectionTaskResponse(f.sectionTasks[i], o)
      g == [f EXCEPT !.sectionTasks[i] = t,
                     !.completionOrder = IF t.phase = "done" THEN Append(@, i) ELSE @]
  IN IF f.wf.pc = "sections" /\ AllSettled(g.sectionTasks) THEN SectionsSettled(g) ELSE g

\* the sequential fallback: sections.push(...)
SeqPush(f, kind) ==
  [f EXCEPT !.sections = Append(@, [title |-> f.wf.item, kind |-> kind])]

NextSeqSection(f) ==
  IF f.wf.item < NumSections
  THEN [f EXCEPT !.wf.item = @ + 1, !.wf.attempt = 0, !.wf.phase = "calling"]
  ELSE AfterSections(f)

SeqSectionResponse(f, o) ==
  CASE o = "long" -> NextSeqSection(SeqPush(f, "content"))
    [] o = "short" -> NextAttempt(f, NextSeqSection(f))
    [] o = "throw" -> CatchAttempt(f, NextSeqSection(SeqPush(f, "placeholder")))

(* generateKnowledgeBase: extractComplexConcepts, then                     *)
(* generateDetailedConceptExplanations                                     *)
ExtractOutcomes ==
  {[kind |-> k, n |-> 0] : k \in {"throw", "invalid"}}
    \cup {[kind |-> "valid", n |-> q] : q \in 0..MaxTerms}

\* how many terms the fallback regex /\b([A-Z][a-zA-Z]{2,})\b/g can find, at
\* most MaxTerms of them kept: none in an empty body, at least the word
\* Content of a placeholder block
RegexTermCounts(secs) ==
  IF secs = <<>> THEN {0}
  ELSE IF \E k \in DOMAIN secs : secs[k].kind = "placeholder" THEN 1..MaxTerms
  ELSE 0..MaxTerms

StartExpansion(f, k) ==
  IF k = 0 THEN Assemble([f EXCEPT !.knowledgeBase = <<>>])
  ELSE [f EXCEPT !.wf = [@ EXCEPT !.pc = "expand", !.phase = "calling", !.attempt = 0],
                 !.explanationTasks = [i \in 1..k |-> NewTaskCall],
                 !.completionOrder = <<>>]

ExtractResponse(f, o, n) ==
  CASE o.kind = "valid" -> StartExpansion(f, o.n)
    [] o.kind \in {"throw", "invalid"} -> CatchAttempt(f, StartExpansion(f, n))

ExplanationOutcomes == {"long", "short", "throw"}

\* a variant that marks a term whose last response is too short with the
\* fallback entry
ExplanationTaskResponseMarking(t, o) ==
  CASE o = "long" -> [t EXCEPT !.phase = "done", !.result = "explained"]
    [] o \in {"short", "throw"} ->
         IF LastAttempt(t.attempt) THEN [t EXCEPT !.phase = "done", !.result = "fallback"]
         ELSE IF o = "short" THEN [t EXCEPT !.attempt = @ + 1]
         ELSE [t EXCEPT !.phase = "delay"]
\* one attempt of a concurrent explanation task settles, as for a section
ExplanationTaskResponse(t, o) ==
  CASE o = "long" -> [t EXCEPT !.phase = "done", !.result = "explained"]
    [] o = "short" -> IF t.attempt + 1 < MaxAttempts THEN [t EXCEPT !.attempt = @ + 1]
                      ELSE [t EXCEPT !.phase = "done", !.result = "undefined"]
    [] o = "throw" -> IF LastAttempt(t.attempt)
                      THEN [t EXCEPT !.phase = "done", !.result = "fallback"]
                      ELSE [t EXCEPT !.phase = "delay"]

\* knowledgeBaseResults.filter(result => result !== undefined)
ExplanationsSettled(f) ==
  LET all == PromiseAll(f.explanationTasks)
      rs == SelectSeq(all, LAMBDA r : r.kind # "undefined")
  IN Assemble([f EXCEPT !.explanationTasks = Unsettled(@),
                        !.knowledgeBaseResults = all,
                        !.knowledgeBase = [k \in DOMAIN rs |->
                                             [term |-> rs[k].index, kind |-> rs[k].kind]]])

ExplanationResponse(f, i, o) ==
  LET t == ExplanationTaskResponse(f.explanationTasks[i], o)
      g == [f EXCEPT !.explanationTasks[i] = t,
                     !.completionOrder = IF t.phase = "done" THEN Append(@, i) ELSE @]
  IN IF f.wf.pc = "expand" /\ AllSettled(g.explanationTasks) THEN ExplanationsSettled(g)
     ELSE g

\* completeContent: the section blocks, then the glossary if there are entries
MainContent(secs, kb) ==
  IF kb = <<>> THEN secs
  ELSE secs \o <<[title |-> 0, kind |-> "glossaryHeader"]>>
            \o [k \in DOMAIN kb |-> [title |-> kb[k].term, kind |-> kb[k].kind]]

ContentOf(f) == [mainContent |-> MainContent(f.sections, f.knowledgeBase),
                 knowledgeBase |-> f.knowledgeBase]

\* one step of the run: the flow variables become f; when the workflow
\* settles, TaskRunner.runTask records the outcome on the task and clears
\* the task context
FlowStep(f) ==
  /\ wf' = f.wf
  /\ searchTasks' = f.searchTasks
  /\ sectionTasks' = f.sectionTasks
  /\ explanationTasks' = f.explanationTasks
  /\ completionOrder' = f.completionOrder
  /\ sectionResults' = f.sectionResults
  /\ knowledgeBaseResults' = f.knowledgeBaseResults
  /\ sections' = f.sections
  /\ knowledgeBase' = f.knowledgeBase
  /\ tasks' = IF f.wf.pc = "done" /\ wf.pc # "done"
              THEN RunnerSuccess(tasks, wf.task, ContentOf(f))
              ELSE IF f.wf.pc = "failed" /\ wf.pc # "failed"
              THEN RunnerFailure(tasks, wf.task)
              ELSE tasks
  /\ stored' = IF f.wf.pc \in {"done", "failed"} /\ wf.pc \notin {"done", "failed"}
               THEN tasks' ELSE stored
  /\ currentTaskId' = IF f.wf.pc \in {"done", "failed"} /\ wf.pc \notin {"done", "failed"}
                      THEN ClearContext(currentTaskId, f.wf.pc = "failed")
                      ELSE currentTaskId
  /\ FlowFrame

\* the orchestrator before a run, with the registry and the client idle
FlowInit == TasksIdle /\ LLMIdle /\ FlowIdle

\* createTask, as the registry does it, during a workflow behaviour
FlowCreateTask ==
  /\ wf.pc = "idle"
  /\ nextId <= MaxTasks
  /\ tasks' = [tasks EXCEPT ![nextId] = NewTask]
  /\ stored' = tasks'
  /\ nextId' = nextId + 1
  /\ UNCHANGED <<runs, nextRun, currentTaskId, llmVars, flowVars, searchVars, unitVars>>

\* new TaskRunner(t).runTask(config) up to the first await: the task is
\* marked running and the workflow issues the rewrite call
FlowRunTask(t, kw) ==
  /\ wf.pc = "idle"
  /\ Exists(tasks, t)
  /\ tasks' = RunnerBegin(tasks, t)
  /\ stored' = tasks'
  /\ currentTaskId' = t
  /\ wf' = [Calling(wf, "rewrite") EXCEPT !.task = t, !.kw = kw]
  /\ UNCHANGED <<searchTasks, sectionTasks, explanationTasks, completionOrder,
                 sectionResults, knowledgeBaseResults, sections, knowledgeBase>>
  /\ FlowFrame

RewriteSettles(o) ==
  /\ wf.pc = "rewrite" /\ wf.phase = "calling"
  /\ FlowStep(RewriteResponse(Cur, o))

PlanSettles(o) ==
  /\ wf.pc = "plan" /\ wf.phase = "calling"
  /\ FlowStep(PlanResponse(Cur, o))

SearchSettles(i, o) ==
  /\ i \in DOMAIN searchTasks
  /\ searchTasks[i].phase = "calling"
  /\ FlowStep(SearchResponse(Cur, i, o))

\* await this.delay(1000) at the end of executeSearches, then summarize
SearchDelayElapsed ==
  /\ wf.pc = "search" /\ wf.phase = "delay"
  /\ AllSettled(searchTasks)
  /\ FlowStep([Cur EXCEPT !.wf = Calling(@, "summarize")])

SummarySettles(o) ==
  /\ wf.pc = "summarize" /\ wf.phase = "calling"
  /\ FlowStep(SummaryResponse(Cur, o))

SectionSettles(i, o) ==
  /\ i \in DOMAIN sectionTasks
  /\ sectionTasks[i].phase = "calling"
  /\ FlowStep(SectionResponse(Cur, i, o))

\* await this.delay(2000) in a section task's catch block, then the next attempt
SectionDelayElapsed(i) ==
  /\ i \in DOMAIN sectionTasks
  /\ sectionTasks[i].phase = "delay"
  /\ FlowStep([Cur EXCEPT !.sectionTasks[i] = [@ EXCEPT !.phase = "calling",
                                                        !.attempt = @ + 1]])

SeqSectionSettles(o) ==
  /\ wf.pc = "seqSections" /\ wf.phase = "calling"
  /\ FlowStep(SeqSectionResponse(Cur, o))

ExtractSettles(o, n) ==
  /\ wf.pc = "extract" /\ wf.phase = "calling"
  /\ n \in RegexTermCounts(sections)
  /\ FlowStep(ExtractResponse(Cur, o, n))

ExplanationSettles(i, o) ==
  /\ i \in DOMAIN explanationTasks
  /\ explanationTasks[i].phase = "calling"
  /\ FlowStep(ExplanationResponse(Cur, i, o))

\* await this.delay(1000) in an explanation task's catch block
ExplanationDelayElapsed(i) ==
  /\ i \in DOMAIN explanationTasks
  /\ explanationTasks[i].phase = "delay"
  /\ FlowStep([Cur EXCEPT !.explanationTasks[i] = [@ EXCEPT !.phase = "calling",
                                                            !.attempt = @ + 1]])

\* await this.delay(2000) in the catch block of a sequential retry loop
DelayElapsed ==
  /\ wf.pc \in {"rewrite", "plan", "summarize", "seqSections", "extract"}
  /\ wf.phase = "delay"
  /\ FlowStep([Cur EXCEPT !.wf.phase = "calling", !.wf.attempt = @ + 1])

FlowNext ==
  \/ FlowCreateTask
  \/ \E t \in TaskIds, kw \in BOOLEAN : FlowRunTask(t, kw)
  \/ \E o \in RewriteOutcomes : RewriteSettles(o)
  \/ \E o \in PlanOutcomes : PlanSettles(o)
  \/ \E i \in 1..FallbackQueries, o \in SearchOutcomes : SearchSettles(i, o)
  \/ SearchDelayElapsed
  \/ \E o \in SummaryOutcomes : SummarySettles(o)
  \/ \E i \in 1..NumSections, o \in SectionOutcomes : SectionSettles(i, o)
  \/ \E i \in 1..NumSections : SectionDelayElapsed(i)
  \/ \E o \in SectionOutcomes : SeqSectionSettles(o)
  \/ \E o \in ExtractOutcomes, n \in 0..MaxTerms : ExtractSettles(o, n)
  \/ \E i \in 1..MaxTerms, o \in ExplanationOutcomes : ExplanationSettles(i, o)
  \/ \E i \in 1..MaxTerms : ExplanationDelayElapsed(i)
  \/ DelayElapsed

SpecFlow == FlowInit /\ [][FlowNext]_vars

(***************************************************************************)
(* executeSearches on its own, with the records it persists.  SpecFlow     *)
(* does not follow the persisted search history; this specification does,  *)
(* for each number of queries a search plan can hold.                      *)
(***************************************************************************)
\* the sizes of the plans generateSearchPlan hands to executeSearches
QueryCounts == (0..MaxQueries) \cup {FallbackQueries}

\* LocalStorageService.saveSearchResult: [...existingResults, result]
SaveSearchResult(h, rec) == Append(h, rec)

\* executeSearches(queries) has been called: queries.map started every task
SearchInit ==
  /\ TasksIdle
  /\ LLMIdle
  /\ \E q \in QueryCounts :
       /\ wf = [pc |-> "search", phase |-> IF q = 0 THEN "delay" ELSE "calling",
                attempt |-> 0, task |-> NoTask, kw |-> FALSE,
                rewritten |-> "rewritten", item |-> 0]
       /\ searchTasks = [i \in 1..q |-> NewTaskCall]
  /\ sectionTasks = <<>>
  /\ explanationTasks = <<>>
  /\ completionOrder = <<>>
  /\ sectionResults = <<>>
  /\ knowledgeBaseResults = <<>>
  /\ sections = <<>>
  /\ knowledgeBase = <<>>
  /\ searchResults = <<>>
  /\ searchHistory = <<>>
  /\ UnitsIdle

\* searchService.search of task i settles; a successful search saves its
\* record before returning it, the catch block only returns the error record
SearchTaskSettles(i, o) ==
  /\ i \in DOMAIN searchTasks
  /\ searchTasks[i].phase = "calling"
  /\ LET f == SearchResponse(Cur, i, o)
     IN /\ wf' = f.wf
        /\ searchTasks' = f.searchTasks
  /\ searchHistory' = IF o = "ok"
                      THEN SaveSearchResult(searchHistory, [index |-> i, kind |-> "record"])
                      ELSE searchHistory
  /\ UNCHANGED <<taskVars, llmVars, sectionTasks, explanationTasks, completionOrder,
                 sectionResults, knowledgeBaseResults, sections, knowledgeBase,
                 searchResults, unitVars>>

\* const results = await Promise.all(searchTasks); await this.delay(1000);
\* return results
ExecuteSearchesReturns ==
  /\ wf.pc = "search" /\ wf.phase = "delay"
  /\ AllSettled(searchTasks)
  /\ searchResults' = PromiseAll(searchTasks)
  /\ wf' = Calling(wf, "summarize")
  /\ UNCHANGED <<taskVars, llmVars, searchTasks, sectionTasks, explanationTasks,
                 completionOrder, sectionResults, knowledgeBaseResults, sections,
                 knowledgeBase, searchHistory, unitVars>>

SearchNext ==
  \/ \E i \in 1..FallbackQueries, o \in SearchOutcomes : SearchTaskSettles(i, o)
  \/ ExecuteSearchesReturns

SpecSearch == SearchInit /\ [][SearchNext]_vars

(***************************************************************************)
(* rewritePrompt and generateSearchPlan on their own, as the first two     *)
(* awaits of executeFullWorkflow, with their arguments and the values they *)
(* return.  A string taken from the user input is known by how many of its *)
(* leading characters it keeps.                                            *)
(***************************************************************************)
\* userInput.substring(0, 50)
TitleLimit == 50

Min(a, b) == IF a < b THEN a ELSE b

\* a user input of L characters, whole
Input(L) == [src |-> "input", len |-> L]
\* s.substring(0, n)
Substring(s, n) == [s EXCEPT !.len = Min(@, n)]
\* text taken from a model response
ModelText == [src |-> "model"]
\* the title of a usable rewrite: a line of the response, or a prefix of the
\* input followed by '...'
DerivedTitle == [src |-> "derived"]

\* the value rewritePrompt returns
RewriteResult(L, how) ==
  IF how = "rewritten"
  THEN [kind |-> "rewrite", rewrittenPrompt |-> ModelText, title |-> DerivedTitle]
  ELSE [kind |-> "rewrite", rewrittenPrompt |-> Input(L),
        title |-> Substring(Input(L), TitleLimit)]

\* a variant whose fallback is the single query the code keeps after its loop
FallbackPlanTopicOnly(topic) ==
  [kind |-> "fallback", queries |-> <<[template |-> 0, topic |-> topic]>>]

\* the fallback plan: five template strings, each with ${topic} in it
FallbackPlan(topic) ==
  [kind |-> "fallback",
   queries |-> [k \in 1..FallbackQueries |-> [template |-> k, topic |-> topic]]]

\* the value generateSearchPlan returns after a response of class o, when it
\* returns: the parsed value as it is, or the fallback plan from the catch
SearchPlanResult(o, topic) ==
  CASE o.kind = "valid" -> [kind |-> "parsed", wellFormed |-> TRUE, n |-> o.n]
    [] o.kind = "badShape" -> [kind |-> "parsed", wellFormed |-> FALSE, n |-> 0]
    [] OTHER -> FallbackPlan(topic)

\* generateSearchPlan has returned
Planned(w) == [w EXCEPT !.pc = "planned", !.phase = "none"]

PromptFrame ==
  UNCHANGED <<taskVars, llmVars, searchTasks, sectionTasks, explanationTasks,
              completionOrder, sectionResults, knowledgeBaseResults, sections,
              knowledgeBase, searchVars, chunkVars, progressVars, registryVars,
              conceptVars, persistVars, issuerVars>>

\* rewritePrompt(userInput) is called with an input of L characters and issues
\* its first model call
CallRewritePrompt(L) ==
  /\ wf.pc = "idle"
  /\ wf' = Calling(wf, "rewrite")
  /\ userInput' = L
  /\ stageCalls' = [stageCalls EXCEPT !.rewrite = 1]
  /\ UNCHANGED <<rewriteResult, searchPlan>>
  /\ PromptFrame

\* the model call of rewritePrompt settles; when rewritePrompt returns,
\* generateSearchPlan(rewrittenPrompt) issues its first model call
RewriteCallSettles(o) ==
  /\ wf.pc = "rewrite" /\ wf.phase = "calling"
  /\ LET g == RewriteResponse([wf |-> wf], o).wf IN
       /\ wf' = g
       /\ rewriteResult' = IF g.pc = "plan" THEN RewriteResult(userInput, g.rewritten)
                           ELSE rewriteResult
       /\ stageCalls' = IF g.pc = "plan" THEN [stageCalls EXCEPT !.plan = 1]
                        ELSE IF g.phase = "calling"
                        THEN [stageCalls EXCEPT !.rewrite = @ + 1]
                        ELSE stageCalls
  /\ UNCHANGED <<userInput, searchPlan>>
  /\ PromptFrame

\* the model call of generateSearchPlan settles
PlanCallSettles(o) ==
  /\ wf.pc = "plan" /\ wf.phase = "calling"
  /\ LET returned == [wf |-> Planned(wf)]
         g == IF o.kind \in {"valid", "badShape"} THEN returned
              ELSE CatchAttempt([wf |-> wf], returned)
     IN /\ wf' = g.wf
        /\ searchPlan' = IF g.wf.pc = "planned"
                         THEN SearchPlanResult(o, rewriteResult.rewrittenPrompt)
                         ELSE searchPlan
  /\ UNCHANGED <<userInput, rewriteResult, stageCalls>>
  /\ PromptFrame

\* await this.delay(2000) in the catch of either stage, then the next attempt
PromptDelayElapsed ==
  /\ wf.pc \in {"rewrite", "plan"} /\ wf.phase = "delay"
  /\ wf' = [wf EXCEPT !.phase = "calling", !.attempt = @ + 1]
  /\ stageCalls' = [stageCalls EXCEPT ![wf.pc] = @ + 1]
  /\ UNCHANGED <<userInput, rewriteResult, searchPlan>>
  /\ PromptFrame

PromptNext ==
  \/ \E L \in 0..MaxInputLen : CallRewritePrompt(L)
  \/ \E o \in RewriteOutcomes : RewriteCallSettles(o)
  \/ \E o \in PlanOutcomes : PlanCallSettles(o)
  \/ PromptDelayElapsed

SpecPrompting == FlowInit /\ [][PromptNext]_vars

(***************************************************************************)
(* A run with no API key configured and the backend proxy off: callLLM     *)
(* resolves every call to the mock text, 277 fixed characters followed by  *)
(* the head of the prompt.  The text is not JSON, is not blank, is longer  *)
(* than both length thresholds, and holds capitalised words (This, API,    *)
(* Qwen, ...) for the fallback regex to find.                              *)
(***************************************************************************)
\* the length of the mock text around an empty prompt
MockTextLen == 277
\* if (sectionContent && sectionContent.length > 100)
SectionMinLen == 100
\* if (explanation && explanation.length > 50)
ExplanationMinLen == 50

\* the length of 'Rate limit error occurred, skipping this term.'
SentinelLen == 46

\* rewritePrompt finds no marker line and keeps the cleaned text, not blank
MockRewriteOutcome == "usable"
\* JSON.parse of the mock text throws
MockParseOutcome == [kind |-> "invalid", n |-> 0]
\* summarizeSearchResults returns whatever callLLM resolved to
MockSummaryOutcome == "ok"
\* the class of a response of len characters under a length threshold
LengthClass(len, threshold) == IF len > threshold THEN "long" ELSE "short"

MockInit ==
  /\ TasksIdle
  /\ llmEnv = [useBackend |-> FALSE, hasKey |-> FALSE]
  /\ calls = <<>>
  /\ nextCall = 1
  /\ promptHistory = <<>>
  /\ FlowIdle

MockNext ==
  \/ FlowCreateTask
  \/ \E t \in TaskIds, kw \in BOOLEAN : FlowRunTask(t, kw)
  \/ RewriteSettles(MockRewriteOutcome)
  \/ PlanSettles(MockParseOutcome)
  \/ \E i \in 1..FallbackQueries, o \in SearchOutcomes : SearchSettles(i, o)
  \/ SearchDelayElapsed
  \/ SummarySettles(MockSummaryOutcome)
  \/ \E i \in 1..NumSections : SectionSettles(i, LengthClass(MockTextLen, SectionMinLen))
  \/ \E n \in 1..MaxTerms : ExtractSettles(MockParseOutcome, n)
  \/ \E i \in 1..MaxTerms :
       ExplanationSettles(i, LengthClass(MockTextLen, ExplanationMinLen))
  \/ DelayElapsed

SpecMock == MockInit /\ [][MockNext]_vars

\* every await of the run settles: the mock text is returned without a
\* request, the searches settle, the timers fire
SpecMockFair == SpecMock /\ WF_vars(MockNext)

(***************************************************************************)
(* ChunkedContentGenerator.generateLongContent on its own.  Its model      *)
(* client is a RealLLMService, whose callLLM resolves to a string whatever *)
(* happens to the request: the content, or the text of the error.          *)
(***************************************************************************)
\* const maxTokensPerCall = 6000
maxTokensPerCall == 6000
\* Math.floor(maxTokensPerCall * 0.75)
estimatedWordsPerCall == (maxTokensPerCall * 3) \div 4

\* Math.ceil(a / b) for a >= 0 and b > 0
Ceil(a, b) == IF a % b = 0 THEN a \div b ELSE (a \div b) + 1

\* a variant that rounds the number of chunks down
chunksNeededRoundedDown(words) == words \div estimatedWordsPerCall
\* Math.ceil(desiredWordCount / estimatedWordsPerCall)
chunksNeeded(words) == Ceil(words, estimatedWordsPerCall)

\* what callLLM resolves to: generated content, the skip sentence after the
\* rate-limit retries, or 'Error occurred while calling the LLM: ...'
ChunkOutcomes == {"content", "sentinel", "error"}

ChunkFrame ==
  UNCHANGED <<taskVars, llmVars, flowVars, searchVars, promptVars, progressVars,
              registryVars, conceptVars, persistVars, issuerVars>>

\* generateLongContent(prompt, words) for some number of words: with no
\* chunk to generate the loop is skipped and '' is returned, else the call
\* for chunk 0 is issued
GenerateLongContent ==
  /\ chunk.pc = "idle"
  /\ \E words \in 0..MaxWordCount :
       /\ desiredWordCount' = words
       /\ chunk' = IF 0 < chunksNeeded(words)
                   THEN [pc |-> "calling", i |-> 0, calls |-> 1]
                   ELSE [pc |-> "returned", i |-> 0, calls |-> 0]
  /\ fullContent' = <<>>
  /\ ChunkFrame

\* await callLLM(chunkPrompt) resolves: fullContent += chunk + ' ', then
\* await this.delay(1000)
ChunkCallSettles(o) ==
  /\ chunk.pc = "calling"
  /\ fullContent' = Append(fullContent, o)
  /\ chunk' = [chunk EXCEPT !.pc = "delay"]
  /\ UNCHANGED desiredWordCount
  /\ ChunkFrame

\* the pause is over: i++, and the next call or return fullContent.trim()
ChunkDelayElapsed ==
  /\ chunk.pc = "delay"
  /\ chunk' = IF chunk.i + 1 < chunksNeeded(desiredWordCount)
              THEN [pc |-> "calling", i |-> chunk.i + 1, calls |-> chunk.calls + 1]
              ELSE [chunk EXCEPT !.pc = "returned", !.i = @ + 1]
  /\ UNCHANGED <<desiredWordCount, fullContent>>
  /\ ChunkFrame

ChunkNext ==
  \/ GenerateLongContent
  \/ \E o \in ChunkOutcomes : ChunkCallSettles(o)
  \/ ChunkDelayElapsed

SpecChunks == FlowInit /\ [][ChunkNext]_vars

(***************************************************************************)
(* ProgressTracker, the one global instance, called by whoever reports     *)
(* progress.  Each call runs to its end before the next one starts.        *)
(***************************************************************************)
\* progressTracker.startTracking(100, 'Initializing workflow')
WorkflowSteps == 100
\* the totals startTracking is called with: 100 by the workflow, 3 plus the
\* number of expandable terms by generateContent
TrackedTotals == {WorkflowSteps} \cup {3 + n : n \in 0..MaxTerms}

\* who calls updateProgress: a stage of the workflow, or one of its
\* concurrent search, section and term tasks
Reporters == {"stage", "search", "section", "term"}

\* a variant without the cap
NextStepUncapped(cur, total) == cur + 1
\* Math.min(this.currentStep + 1, this.totalSteps)
NextStep(cur, total) == Min(cur + 1, total)

\* the GenerationProgress record pushed for a step
Progress(cur, total) ==
  [current |-> cur, total |-> total,
   status |-> IF cur = total THEN "completed" ELSE "in-progress"]

ProgressFrame ==
  UNCHANGED <<taskVars, llmVars, flowVars, searchVars, promptVars, chunkVars,
              registryVars, conceptVars, persistVars, issuerVars>>

\* startTracking(total, name): the list is replaced by the initial step
StartTracking(total) ==
  /\ totalSteps' = total
  /\ currentStep' = 0
  /\ progressSteps' = <<[current |-> 0, total |-> total, status |-> "in-progress"]>>
  /\ ProgressFrame

\* updateProgress(stepName, details), called once tracking has started
UpdateProgress(who) ==
  /\ progressSteps # <<>>
  /\ Len(progressSteps) < MaxSteps
  /\ currentStep' = NextStep(currentStep, totalSteps)
  /\ progressSteps' = Append(progressSteps, Progress(currentStep', totalSteps))
  /\ UNCHANGED totalSteps
  /\ ProgressFrame

ProgressNext ==
  \/ \E total \in TrackedTotals : StartTracking(total)
  \/ \E who \in Reporters : UpdateProgress(who)

SpecProgress == FlowInit /\ [][ProgressNext]_vars

(***************************************************************************)
(* PromptTracker on its own.  The log lives in localStorage and outlives   *)
(* the session: a session starts with the log earlier sessions left, empty *)
(* or filled to within a record of the cap.                                *)
(***************************************************************************)
\* the sizes of the log a session finds
StoredLogSizes == {0} \cup ((maxPromptHistory - 1)..maxPromptHistory)

\* a log of n records saved and updated by earlier sessions, oldest first;
\* their ids are the non-positive numbers, those of this session count from 1
StoredLog(n) ==
  [k \in 1..n |-> [id |-> k - n, taskId |-> NoTask,
                   response |-> "content", status |-> "success"]]

\* the ids updatePrompt is called with: one no log ever held, the two oldest
\* and the newest of a full stored log, and those of this session
UpdatedIds ==
  {0 - maxPromptHistory, 1 - maxPromptHistory, 2 - maxPromptHistory, 0} \cup LLMCallIds

\* PromptRecord['status'] as updatePrompt sets it
UpdateStatuses == {"success", "error", "timeout"}

LogInit ==
  /\ TasksIdle
  /\ llmEnv = [useBackend |-> FALSE, hasKey |-> TRUE]
  /\ calls = <<>>
  /\ nextCall = 1
  /\ promptHistory \in {StoredLog(n) : n \in StoredLogSizes}
  /\ FlowIdle

\* PromptTracker.savePrompt(prompt, metadata, taskId): the record gets its id,
\* and the log is written back unless localStorage.setItem throws
LogSavePrompt(written) ==
  /\ nextCall <= MaxLLMCalls
  /\ nextCall' = nextCall + 1
  /\ promptHistory' = IF written THEN SavePrompt(promptHistory, nextCall, currentTaskId)
                      ELSE promptHistory
  /\ UNCHANGED <<llmEnv, calls>>
  /\ LLMFrame

\* PromptTracker.updatePrompt(id, {response, status})
LogUpdatePrompt(id, status) ==
  /\ promptHistory' = UpdatePrompt(promptHistory, id, "content", status)
  /\ UNCHANGED <<llmEnv, calls, nextCall>>
  /\ LLMFrame

LogNext ==
  \/ \E written \in BOOLEAN : LogSavePrompt(written)
  \/ \E id \in UpdatedIds, status \in UpdateStatuses : LogUpdatePrompt(id, status)

SpecLog == LogInit /\ [][LogNext]_vars

(***************************************************************************)
(* TaskManagerService.updateTask and updateTaskProgress called directly,   *)
(* with ids the registry holds and ids it does not.  SpecTasks does not    *)
(* follow the progress entries of a task; this specification does.         *)
(***************************************************************************)
\* the Partial<Task> values updateTask is called with
RegistryUpdates ==
  {[status |-> st] : st \in {"running", "completed", "failed"}}
    \cup {[currentContent |-> <<WorkflowContent>>, status |-> "completed"]}

\* a variant without the existence check: the spread of the updates becomes
\* the entry
UpdateTaskCallUnchecked(ts, id, updates) ==
  [threw |-> "none", tasks |-> UpdateTask(ts, id, updates)]
\* updateTask(taskId, updates): throws when the id is not a key of the
\* registry, else replaces the entry
UpdateTaskCall(ts, id, updates) ==
  IF ~Exists(ts, id) THEN [threw |-> "notFound", tasks |-> ts]
  ELSE [threw |-> "none", tasks |-> UpdateTask(ts, id, updates)]

\* updateTaskProgress(taskId, progress): throws when the id is not a key of
\* the registry, else pushes the entry
UpdateTaskProgressCall(ts, pr, id) ==
  IF ~Exists(ts, id) THEN [threw |-> "notFound", progress |-> pr]
  ELSE [threw |-> "none", progress |-> [pr EXCEPT ![id] = @ + 1]]

RegistryFrame ==
  UNCHANGED <<nextId, nextRun, currentTaskId, llmVars, flowVars, searchVars,
              promptVars, chunkVars, progressVars, conceptVars, persistVars, issuerVars>>

\* a call of updateTask; saveTasksToStorage follows unless it threw
CallUpdateTask(id, updates) ==
  LET call == UpdateTaskCall(tasks, id, updates) IN
    /\ tasks' = call.tasks
    /\ stored' = IF call.threw = "none" THEN tasks' ELSE stored
    /\ runs' = IF call.threw = "none" THEN Detach(runs, id) ELSE runs
    /\ registryError' = call.threw
    /\ UNCHANGED taskProgress
    /\ RegistryFrame

\* a call of updateTaskProgress; progress beyond MaxCalls entries is not
\* followed
CallUpdateTaskProgress(id) ==
  LET call == UpdateTaskProgressCall(tasks, taskProgress, id) IN
    /\ taskProgress[id] < MaxCalls
    /\ taskProgress' = call.progress
    /\ registryError' = call.threw
    /\ UNCHANGED <<tasks, stored, runs>>
    /\ RegistryFrame

RegistryNext ==
  \/ CreateTask
  \/ \E t \in TaskIds : DeleteTask(t)
  \/ \E id \in TaskIds, updates \in RegistryUpdates : CallUpdateTask(id, updates)
  \/ \E id \in TaskIds : CallUpdateTaskProgress(id)

SpecRegistry == TaskInit /\ [][RegistryNext]_vars

(***************************************************************************)
(* extractComplexConcepts on its own, with the content it is given and the *)
(* array it returns.  SpecFlow follows at most MaxTerms concepts; this     *)
(* specification follows the regex fallback on contents with more matches  *)
(* than it keeps.                                                          *)
(***************************************************************************)
\* basicTerms.slice(0, 10)
RegexTermLimit == 10

\* what one model call of the extraction comes to: callLLM rejects; the
\* response is not JSON; it is the JSON null, whose property read throws; it
\* is JSON without a truthy complexConcepts; it is JSON with n concepts
ExtractionOutcomes ==
  {[kind |-> k, n |-> 0] : k \in {"throw", "invalid", "null", "plain"}}
    \cup {[kind |-> "valid", n |-> q] : q \in 1..MaxTerms}

\* a variant that keeps every match
RegexTermsUnsliced(m) == m
\* (content.match(/\b([A-Z][a-zA-Z]{2,})\b/g) || []).slice(0, 10), counted
RegexTerms(m) == Min(m, RegexTermLimit)

\* one attempt of the loop settles: the extraction, and what it returned
ExtractionAttempt(e, o, m) ==
  CASE o.kind = "valid" ->
         [e |-> [e EXCEPT !.pc = "returned"], r |-> [kind |-> "parsed", n |-> o.n]]
    [] o.kind = "plain" ->
         [e |-> [e EXCEPT !.pc = "returned"], r |-> [kind |-> "parsed", n |-> 0]]
    [] o.kind \in {"throw", "invalid", "null"} ->
         IF LastAttempt(e.attempt)
         THEN [e |-> [e EXCEPT !.pc = "returned", !.failed = @ + 1],
               r |-> [kind |-> "regex", n |-> RegexTerms(m)]]
         ELSE [e |-> [e EXCEPT !.pc = "delay", !.failed = @ + 1], r |-> NoResult]

ConceptFrame ==
  UNCHANGED <<taskVars, llmVars, searchVars, promptVars, chunkVars, progressVars,
              registryVars, persistVars, issuerVars>>

\* extractComplexConcepts(topic, content) is called with a content of m
\* regex matches and issues its first model call
CallExtractComplexConcepts ==
  /\ extraction.pc = "idle"
  /\ \E m \in 0..MaxMatches : contentMatches' = m
  /\ extraction' = [pc |-> "calling", attempt |-> 0, calls |-> 1, failed |-> 0]
  /\ UNCHANGED <<extractedConcepts, processedCount, progressReports, flowVars>>
  /\ ConceptFrame

ExtractionCallSettles(o) ==
  /\ extraction.pc = "calling"
  /\ LET a == ExtractionAttempt(extraction, o, contentMatches) IN
       /\ extraction' = a.e
       /\ extractedConcepts' = a.r
  /\ UNCHANGED <<contentMatches, processedCount, progressReports, flowVars>>
  /\ ConceptFrame

\* await this.delay(2000), then the next attempt's model call
ExtractionDelayElapsed ==
  /\ extraction.pc = "delay"
  /\ extraction' = [extraction EXCEPT !.pc = "calling", !.attempt = @ + 1,
                                      !.calls = @ + 1]
  /\ UNCHANGED <<contentMatches, extractedConcepts, processedCount, progressReports,
                 flowVars>>
  /\ ConceptFrame

ExtractionNext ==
  \/ CallExtractComplexConcepts
  \/ \E o \in ExtractionOutcomes : ExtractionCallSettles(o)
  \/ ExtractionDelayElapsed

SpecExtraction == FlowInit /\ [][ExtractionNext]_vars

(***************************************************************************)
(* generateDetailedConceptExplanations on its own, with the counter its    *)
(* tracked tasks share and the details they report.  The concepts are the  *)
(* objects extractComplexConcepts returns, so that a task settles by       *)
(* returning.  The step counter of ProgressTracker is followed in          *)
(* SpecProgress.                                                           *)
(***************************************************************************)
\* a variant that reports before it counts
TrackedReportingFirst(count, reports, total) ==
  [count |-> count + 1, reports |-> Append(reports, [processed |-> count, of |-> total])]
\* processedCount++; updateProgress(): the continuation of a tracked task
Tracked(count, reports, total) ==
  [count |-> count + 1,
   reports |-> Append(reports, [processed |-> count + 1, of |-> total])]

\* explanationTasks = concepts.map(async ...): every task runs up to its
\* first model call; let processedCount = 0
StartExplanations(n) ==
  /\ explanationTasks = <<>>
  /\ knowledgeBaseResults = <<>>
  /\ explanationTasks' = [i \in 1..n |-> NewTaskCall]
  /\ processedCount' = 0
  /\ progressReports' = <<>>
  /\ UNCHANGED <<contentMatches, extraction, extractedConcepts, wf, searchTasks,
                 sectionTasks, completionOrder, sectionResults, knowledgeBaseResults,
                 sections, knowledgeBase>>
  /\ ConceptFrame

\* one attempt of task i settles; when the task returns, its tracked
\* continuation counts and reports, and once every tracked task has
\* returned Promise.all resolves and the undefined results are filtered out
TrackedExplanationSettles(i, o) ==
  /\ i \in DOMAIN explanationTasks
  /\ explanationTasks[i].phase = "calling"
  /\ LET t == ExplanationTaskResponse(explanationTasks[i], o)
         ts == [explanationTasks EXCEPT ![i] = t]
         p == Tracked(processedCount, progressReports, Len(explanationTasks))
         all == PromiseAll(ts)
         rs == SelectSeq(all, LAMBDA r : r.kind # "undefined")
     IN /\ explanationTasks' = ts
        /\ processedCount' = IF t.phase = "done" THEN p.count ELSE processedCount
        /\ progressReports' = IF t.phase = "done" THEN p.reports ELSE progressReports
        /\ completionOrder' = IF t.phase = "done" THEN Append(completionOrder, i)
                              ELSE completionOrder
        /\ knowledgeBaseResults' = IF AllSettled(ts) THEN all ELSE knowledgeBaseResults
        /\ knowledgeBase' = IF AllSettled(ts)
                            THEN [k \in DOMAIN rs |-> [term |-> rs[k].index, kind |-> rs[k].kind]]
                            ELSE knowledgeBase
  /\ UNCHANGED <<contentMatches, extraction, extractedConcepts, wf, searchTasks,
                 sectionTasks, sectionResults, sections>>
  /\ ConceptFrame

\* await this.delay(1000) in the catch block of task i
TrackedExplanationDelayElapsed(i) ==
  /\ i \in DOMAIN explanationTasks
  /\ explanationTasks[i].phase = "delay"
  /\ explanationTasks' = [explanationTasks EXCEPT ![i] = [@ EXCEPT !.phase = "calling",
                                                                   !.attempt = @ + 1]]
  /\ UNCHANGED <<conceptVars, wf, searchTasks, sectionTasks, completionOrder,
                 sectionResults, knowledgeBaseResults, sections, knowledgeBase>>
  /\ ConceptFrame

ExpansionNext ==
  \/ \E n \in 1..MaxTerms : StartExplanations(n)
  \/ \E i \in 1..MaxTerms, o \in ExplanationOutcomes : TrackedExplanationSettles(i, o)
  \/ \E i \in 1..MaxTerms : TrackedExplanationDelayElapsed(i)

SpecExpansion == FlowInit /\ [][ExpansionNext]_vars

(***************************************************************************)
(* The model calls one run has in flight at the same time, as the          *)
(* PromptTracker sees them: each callLLM saves its record before its first *)
(* await and updates it after its request settled, and the saves and       *)
(* updates of different calls come in any order.  localStorage accepts     *)
(* every write here; SpecLog follows the writes it refuses.                *)
(***************************************************************************)
\* the response text of call i, different for every call
ResponseOf(i, status) == <<i, status>>

\* callLLM up to its first await: PromptTracker.savePrompt
ConcurrentCallStarts ==
  /\ Len(calls) < MaxConcurrent
  /\ nextCall' = nextCall + 1
  /\ promptHistory' = SavePrompt(promptHistory, nextCall, currentTaskId)
  /\ calls' = Append(calls, [id |-> nextCall, pc |-> "pending",
                             response |-> "none", status |-> "none"])
  /\ UNCHANGED llmEnv
  /\ LLMFrame

\* the request of call i settled: PromptTracker.updatePrompt with the
\* response or the error text.  After an update with status success the
\* call returns, unless building the real-time log entry throws; then the
\* outer catch updates the record again, with status error
ConcurrentCallRecords(i, status) ==
  /\ i \in DOMAIN calls
  /\ \/ calls[i].pc = "pending"
     \/ calls[i].pc = "recorded" /\ status = "error"
  /\ promptHistory' = UpdatePrompt(promptHistory, calls[i].id,
                                   ResponseOf(i, status), status)
  /\ calls' = [calls EXCEPT ![i] = [@ EXCEPT !.pc = IF status = "success" /\ @ = "pending"
                                                    THEN "recorded" ELSE "done",
                                             !.response = ResponseOf(i, status),
                                             !.status = status]]
  /\ UNCHANGED <<llmEnv, nextCall>>
  /\ LLMFrame

\* return content
ConcurrentCallReturns(i) ==
  /\ i \in DOMAIN calls
  /\ calls[i].pc = "recorded"
  /\ calls' = [calls EXCEPT ![i].pc = "done"]
  /\ UNCHANGED <<llmEnv, nextCall, promptHistory>>
  /\ LLMFrame

InterleavedNext ==
  \/ ConcurrentCallStarts
  \/ \E i \in 1..MaxConcurrent, status \in UpdateStatuses : ConcurrentCallRecords(i, status)
  \/ \E i \in 1..MaxConcurrent : ConcurrentCallReturns(i)

SpecInterleaved == LogInit /\ [][InterleavedNext]_vars

(***************************************************************************)
(* TaskManagerService with its key-value store.  Every operation ends in   *)
(* saveTasksToStorage, whose localStorage.setItem can throw (the quota is  *)
(* shared with the generated articles and the prompt log); the catch       *)
(* block logs the error and the operation returns as usual.  SpecTasks and *)
(* SpecRegistry follow a store that accepts every write.                   *)
(***************************************************************************)
\* no task under this id
NoEntry == [status |-> "absent"]

\* the Task createTask builds
CreatedTask == [status |-> "created", content |-> <<>>, progress |-> 0, promptHistory |-> 0]

\* localStorage.getItem on a key that was never set or was removed
NoItem == [item |-> FALSE, entries |-> {}]

\* JSON.stringify(this.tasks): the entries of the object, key by key
Stringify(reg) ==
  [item |-> TRUE,
   entries |-> {<<t, reg[t]>> : t \in {u \in DOMAIN reg : reg[u].status # "absent"}}]

\* loadTasksFromStorage in a new TaskManagerService: {} unless the store
\* holds a string, which is parsed
LoadTasksFromStorage(str, ids) ==
  IF ~str.item THEN [t \in ids |-> NoEntry]
  ELSE [t \in ids |-> IF \E e \in str.entries : e[1] = t
                      THEN (CHOOSE e \in str.entries : e[1] = t)[2] ELSE NoEntry]

\* saveTasksToStorage: setItem, or the catch block when setItem throws
SaveTasksToStorage(reg, str, written) == IF written THEN Stringify(reg) ELSE str

\* the objects captured by startTask calls that are no longer in the registry
\* once the entry of id was replaced or deleted
Replaced(st, id) == [st EXCEPT ![id] = IF @ = "none" THEN @ ELSE "stale"]

PersistFrame ==
  UNCHANGED <<taskVars, llmVars, flowVars, searchVars, promptVars, chunkVars,
              progressVars, registryVars, conceptVars, issuerVars>>

\* the registry becomes reg and saveTasksToStorage runs
Persist(reg, written) ==
  /\ registry' = reg
  /\ taskStore' = SaveTasksToStorage(reg, taskStore, written)
  /\ PersistFrame

PersistCreateTask(written) ==
  /\ created < MaxTasks
  /\ created' = created + 1
  /\ UNCHANGED starting
  /\ Persist([registry EXCEPT ![created + 1] = CreatedTask], written)

\* updateTask(id, updates) on a task of the registry; on any other id it
\* throws before it changes anything
PersistUpdateTask(id, updates, written) ==
  /\ registry[id].status # "absent"
  /\ starting' = Replaced(starting, id)
  /\ UNCHANGED created
  /\ Persist([registry EXCEPT ![id] = [f \in DOMAIN @ |->
                IF f \in DOMAIN updates THEN updates[f] ELSE @[f]]], written)

PersistUpdateTaskProgress(id, written) ==
  /\ registry[id].status # "absent"
  /\ registry[id].progress < MaxEntries
  /\ UNCHANGED <<created, starting>>
  /\ Persist([registry EXCEPT ![id].progress = @ + 1], written)

PersistAddPromptToTask(id, written) ==
  /\ registry[id].status # "absent"
  /\ registry[id].promptHistory < MaxEntries
  /\ UNCHANGED <<created, starting>>
  /\ Persist([registry EXCEPT ![id].promptHistory = @ + 1], written)

PersistDeleteTask(id, written) ==
  /\ starting' = Replaced(starting, id)
  /\ UNCHANGED created
  /\ Persist([registry EXCEPT ![id] = NoEntry], written)

\* startTask(id) up to its await: the task is marked running and saved;
\* generateContent then creates a task of its own, whose runner marks it
\* running and pushes its first progress entry
PersistStartTask(id, written) ==
  /\ registry[id].status # "absent"
  /\ starting[id] = "none"
  /\ created < MaxTasks
  /\ created' = created + 1
  /\ starting' = [starting EXCEPT ![id] = "captured"]
  /\ Persist([registry EXCEPT ![id].status = "running",
                              ![created + 1] = [CreatedTask EXCEPT !.status = "running",
                                                                   !.progress = 1]],
             written)

\* startTask(id) after generateContent settled: the captured object gets
\* the content and completed, or failed, and the registry is saved
PersistStartSettles(id, ok, written) ==
  /\ starting[id] # "none"
  /\ starting' = [starting EXCEPT ![id] = "none"]
  /\ UNCHANGED created
  /\ Persist(IF starting[id] = "stale" THEN registry
             ELSE IF ok THEN [registry EXCEPT ![id].status = "completed",
                                              ![id].content = <<WorkflowContent>>]
             ELSE [registry EXCEPT ![id].status = "failed"],
             written)

\* clearAll: this.tasks = {}; localStorage.removeItem
PersistClearAll ==
  /\ registry' = [t \in TaskIds |-> NoEntry]
  /\ taskStore' = NoItem
  /\ starting' = [t \in TaskIds |-> IF starting[t] = "none" THEN "none" ELSE "stale"]
  /\ UNCHANGED created
  /\ PersistFrame

PersistUpdates ==
  {[status |-> st] : st \in {"running", "completed", "failed"}}
    \cup {[content |-> <<WorkflowContent>>, status |-> "completed"]}

PersistNext ==
  \/ \E written \in BOOLEAN : PersistCreateTask(written)
  \/ \E id \in TaskIds, updates \in PersistUpdates, written \in BOOLEAN :
       PersistUpdateTask(id, updates, written)
  \/ \E id \in TaskIds, written \in BOOLEAN : PersistUpdateTaskProgress(id, written)
  \/ \E id \in TaskIds, written \in BOOLEAN : PersistAddPromptToTask(id, written)
  \/ \E id \in TaskIds, written \in BOOLEAN : PersistDeleteTask(id, written)
  \/ \E id \in TaskIds, written \in BOOLEAN : PersistStartTask(id, written)
  \/ \E id \in TaskIds, ok \in BOOLEAN, written \in BOOLEAN :
       PersistStartSettles(id, ok, written)
  \/ PersistClearAll

SpecPersist == TaskInit /\ [][PersistNext]_vars

(***************************************************************************)
(* Several runs on one process, each with the model calls its workflow     *)
(* makes.  SpecContext records a call without saying whose it is; this     *)
(* specification keeps, next to each prompt record, the task of the run    *)
(* that issued the call.                                                   *)
(***************************************************************************)
\* a variant that hands the task of the calling run down to callLLM
GetCurrentTaskThreaded(cur, own) == own
\* TaskContext.getCurrentTask(): the one slot, whoever asks
GetCurrentTask(cur, own) == cur

\* the workflow of run r calls callLLM, whose first statements read the
\* task context and save the prompt record
RunIssuesCall(r) ==
  /\ runs[r].pc = "workflow"
  /\ nextCall <= MaxLLMCalls
  /\ nextCall' = nextCall + 1
  /\ promptHistory' = SavePrompt(promptHistory, nextCall,
                                 GetCurrentTask(currentTaskId, runs[r].task))
  /\ issuedBy' = Append(issuedBy, runs[r].task)
  /\ UNCHANGED <<taskVars, llmEnv, calls, flowVars, searchVars, promptVars, chunkVars,
                 progressVars, registryVars, conceptVars, persistVars>>

SharedNext ==
  \/ \E r \in RunIds : RunIssuesCall(r)
  \/ TaskNext

SpecShared == TaskInit /\ [][SharedNext]_vars

(***************************************************************************)
(* Claims about the task registry (checked under SpecTasks)                *)
(***************************************************************************)
\* the transitions of one task's status the lifecycle allows in one step; a
\* task created and started in the same synchronous step goes absent -> running
AllowedTransition(s1, s2) ==
  \/ s1 = s2
  \/ s2 = "absent"
  \/ s1 = "absent" /\ s2 \in {"created", "running"}
  \/ s1 = "created" /\ s2 = "running"
  \/ s1 = "running" /\ s2 \in {"completed", "failed"}

\* C1: for every sequence of createTask, runTask and startTask calls a task's
\* status only moves created -> running -> completed or failed, and a task
\* that reached completed or failed never returns to created or running.
C1_StatusMonotonic ==
  [][\A t \in TaskIds :
       /\ AllowedTransition(tasks[t].status, tasks'[t].status)
       /\ (tasks[t].status \in {"completed", "failed"}
             => tasks'[t].status \notin {"created", "running"})]_vars

\* C2: in every reachable state of the registry a task has currentContent
\* set if and only if its status is completed.
C2_ContentIffCompleted ==
  \A t \in TaskIds :
    Exists(tasks, t) => (tasks[t].currentContent # <<>> <=> tasks[t].status = "completed")

\* C4: whenever ContentGenerationService.runTask / generateContent rejects,
\* the task it ran is failed and has no currentContent.
C4_RejectMeansFailedNoContent ==
  [][\A r \in RunIds :
       (/\ runs[r].kind \in {"run", "gen"}
        /\ runs[r].result # "threw"
        /\ runs'[r].result = "threw"
        /\ Exists(tasks', runs'[r].task))
       => /\ tasks'[runs'[r].task].status = "failed"
          /\ tasks'[runs'[r].task].currentContent = <<>>]_vars

(***************************************************************************)
(* Claims about the model client (checked under SpecLLM)                   *)
(***************************************************************************)
\* the values callLLM can resolve to that are strings
StringResults == {"content", "mock", "sentinel", "error"}

RequestsSent(c) == c.backendSent + c.directSent

\* C5: in direct mode, a callLLM invocation whose every response is a
\* rate-limit response sends at most 1 + maxRetries = 4 requests and then
\* returns the sentinel skip string.
C5_RateLimitRetryCap ==
  \A i \in DOMAIN calls :
    (~llmEnv.useBackend /\ calls[i].onlyRate)
      => /\ RequestsSent(calls[i]) <= 1 + maxRetries
         /\ (calls[i].pc = "done" /\ calls[i].directSent > 0)
              => (calls[i].result = "sentinel" /\ RequestsSent(calls[i]) = 1 + maxRetries)

\* a direct-mode call that saw only rate-limit responses and has returned
C5_Witness ==
  \E i \in DOMAIN calls :
    /\ ~llmEnv.useBackend /\ calls[i].onlyRate
    /\ calls[i].pc = "done" /\ calls[i].directSent = 1 + maxRetries
    /\ calls[i].result = "sentinel"

\* C6: callLLM never throws: for every sequence of outcomes of its requests
\* and of the history save, the call resolves to a string.
C6_NeverThrows ==
  \A i \in DOMAIN calls : calls[i].pc = "done" => calls[i].result \in StringResults

\* a call that went through the outer catch with a non-rate-limit error (a
\* completion without string content: updated twice) and has returned
C6_Witness ==
  \E i \in DOMAIN calls :
    /\ calls[i].pc = "done" /\ calls[i].result = "error"
    /\ Len(calls[i].updates) = 2

(***************************************************************************)
(* Claims about the workflow (checked under SpecFlow)                      *)
(***************************************************************************)
\* C3: whenever a run leaves a task in status completed, the content stored
\* on the task has non-empty mainContent, whatever the model calls return.
C3_CompletedHasMainContent ==
  \A t \in TaskIds :
    tasks[t].status = "completed"
      => /\ tasks[t].currentContent # <<>>
         /\ tasks[t].currentContent[1].mainContent # <<>>

\* the stage a position of the run belongs to, and the rank of the stages
StageOf(pc) == IF pc = "seqSections" THEN "sections" ELSE pc

StageRank(pc) ==
  CASE pc = "idle" -> 0
    [] pc = "rewrite" -> 1
    [] pc = "plan" -> 2
    [] pc = "search" -> 3
    [] pc = "summarize" -> 4
    [] pc \in {"sections", "seqSections"} -> 5
    [] pc = "extract" -> 6
    [] pc = "expand" -> 7
    [] pc \in {"done", "failed"} -> 8

\* the stages that have a model call in flight
CallsInFlight ==
  {s \in {"rewrite", "plan", "summarize", "seqSections", "extract"} :
     wf.pc = s /\ wf.phase = "calling"}
  \cup {s \in {"search"} : \E i \in DOMAIN searchTasks : searchTasks[i].phase = "calling"}
  \cup {s \in {"sections"} : \E i \in DOMAIN sectionTasks : sectionTasks[i].phase = "calling"}
  \cup {s \in {"expand"} : \E i \in DOMAIN explanationTasks :
                              explanationTasks[i].phase = "calling"}

\* C7: within one run the stages start in the order rewrite, plan, search,
\* summarize, sections, knowledge base (extract, expand), assemble, and a
\* stage issues no model call while a call of an earlier stage, concurrent
\* ones included, has not settled.
C7_StagesInOrder ==
  [][/\ StageRank(wf'.pc) >= StageRank(wf.pc)
     /\ (StageRank(wf'.pc) <= StageRank(wf.pc) + 1 \/ wf'.pc \in {"done", "failed"})
     /\ \A s \in CallsInFlight' : StageOf(s) = StageOf(wf'.pc)]_vars

\* a run that went through every stage, with concurrent sections and terms
C7_Witness ==
  /\ wf.pc = "done" /\ wf.kw
  /\ Len(sections) = NumSections
  /\ Len(knowledgeBase) > 1

\* C8: for every order in which the concurrent section calls complete, the
\* article body lists the sections in the canonical sectionTitles order.
C8_SectionsInCanonicalOrder ==
  \A i, j \in DOMAIN sections : i < j => sections[i].title < sections[j].title

\* the parallel batch produced the body although the last title finished first
C8_Witness ==
  /\ wf.item = 0
  /\ Len(sections) = NumSections
  /\ Len(completionOrder) = NumSections
  /\ completionOrder[1] = NumSections

\* exactly one result of a settled batch is not the generated one
ExactlyOneFailed(rs, good) ==
  /\ Len(rs) > 1
  /\ Cardinality({k \in DOMAIN rs : rs[k].kind # good}) = 1

\* C9: if exactly one of the N concurrent section tasks exhausts its 3
\* attempts (by exceptions or by responses not above the length threshold)
\* while the others succeed, the stage still yields N sections: the failing
\* one holds the placeholder, the others their content; no batch abort.
C9_OneSectionFailureIsolated ==
  ExactlyOneFailed(sectionResults, "content")
    => /\ wf.pc # "seqSections"
       /\ Len(sections) = NumSections
       /\ \A k \in DOMAIN sections :
            /\ sections[k].title = k
            /\ sections[k].kind =
                 IF \E m \in DOMAIN sectionResults :
                      sectionResults[m].index = k /\ sectionResults[m].kind = "content"
                 THEN "content" ELSE "placeholder"

\* C10: if exactly one of N concurrently expanded terms exhausts its 3
\* attempts while the others succeed, expansion still returns N entries, the
\* failing term's entry holding the fallback placeholder definition.
C10_OneTermFailureIsolated ==
  ExactlyOneFailed(knowledgeBaseResults, "explained")
    => /\ Len(knowledgeBase) = Len(knowledgeBaseResults)
       /\ \A k \in DOMAIN knowledgeBase :
            /\ knowledgeBase[k].term = k
            /\ knowledgeBase[k].kind =
                 IF knowledgeBaseResults[k].kind = "explained" THEN "explained"
                 ELSE "fallback"

RunnerActive(rs) == {r \in RunIds : rs[r].pc = "workflow"}

\* C12: after TaskRunner.runTask settles, by returning or by throwing, the
\* current-task slot is null, and it is null whenever no run is in progress,
\* so a model call made outside any run is recorded with no task id.
C12_ContextClearedAfterRun ==
  [][/\ (RunnerActive(runs) \ RunnerActive(runs') # {}) => currentTaskId' = NoTask
     /\ RunnerActive(runs') = {} => currentTaskId' = NoTask
     /\ (RunnerActive(runs) = {} /\ Len(promptHistory') > Len(promptHistory))
          => promptHistory'[Len(promptHistory')].taskId = NoTask]_vars

\* a run whose workflow threw has settled and left the slot null
C12_Witness ==
  \E r \in RunIds :
    /\ runs[r].kind = "run" /\ runs[r].pc = "done" /\ runs[r].result = "threw"
    /\ tasks[runs[r].task].status = "failed"
    /\ currentTaskId = NoTask
    /\ promptHistory # <<>>
    /\ promptHistory[Len(promptHistory)].taskId = NoTask

\* the task a run was started for: the argument of runTask or of startTask
OwningTask(run) == IF run.kind = "start" THEN run.outer ELSE run.task

\* C13: every PromptRecord created by a model call issued during the run of
\* task T, started through runTask or through startTask with no other run
\* in progress, carries taskId = T.
C13_PromptCarriesOwningTask ==
  [][\A r \in RunIds :
       (/\ runs[r].pc = "workflow"
        /\ \A q \in RunIds \ {r} : runs[q].pc = "idle"
        /\ Len(promptHistory') > Len(promptHistory))
         => promptHistory'[Len(promptHistory')].taskId = OwningTask(runs[r])]_vars

(***************************************************************************)
(* Claims about the prompt log (checked under SpecLLM)                     *)
(***************************************************************************)
\* C14: a PromptRecord is created with no response and no status, and one
\* callLLM invocation updates it at most once, on every path through the call.
C14_UpdatedAtMostOnce ==
  /\ \A i \in DOMAIN calls : Len(calls[i].updates) <= 1
  /\ \A k \in DOMAIN promptHistory :
       (promptHistory[k].id \in DOMAIN calls
        /\ calls[promptHistory[k].id].updates = <<>>)
         => (promptHistory[k].response = "none" /\ promptHistory[k].status = "none")

C17_NoRetryOnPlainError ==
  [][\A i \in LLMCallIds :
       /\ (\E o \in {"httpError", "netError"} : DirectSettles(i, o))
            => /\ calls'[i].pc = "history"
               /\ calls'[i].pending = "error"
               /\ RequestsSent(calls'[i]) = RequestsSent(calls[i])
       /\ (i \in DOMAIN calls /\ calls[i].pc = "history")
            => /\ calls'[i].pc \in {"history", "done"}
               /\ RequestsSent(calls'[i]) = RequestsSent(calls[i])
               /\ calls'[i].pc = "done" => calls'[i].result = calls[i].pending]_vars

\* a direct-mode call returned the error string after its only request
C17_Witness ==
  \E i \in DOMAIN calls :
    /\ ~llmEnv.useBackend
    /\ calls[i].pc = "done" /\ calls[i].result = "error"
    /\ calls[i].directSent = 1 /\ calls[i].attempts = 0
    /\ calls[i].updates = <<[response |-> "error", status |-> "error"]>>

RECURSIVE TotalWait(_)
TotalWait(w) == IF w = <<>> THEN 0 ELSE Head(w) + TotalWait(Tail(w))

\* C18: the wait before the k-th retry of a rate-limited callLLM invocation
\* (k = 1, 2, 3) is 2^k seconds, so one invocation waits at most
\* 2 + 4 + 8 = 14 seconds in all; no wait precedes the first request or
\* follows the last one.
C18_BackoffWaits ==
  \A i \in DOMAIN calls :
    LET w == calls[i].waits
    IN /\ Len(w) <= maxRetries
       /\ \A k \in DOMAIN w : w[k] = 2 ^ k
       /\ TotalWait(w) <= 2 + 4 + 8
       /\ Len(w) <= RequestsSent(calls[i])
       /\ (calls[i].pc \in {"history", "done"} /\ w # <<>>)
            => Len(w) < RequestsSent(calls[i])

\* a call that gave up after waiting 2, 4 and 8 seconds
C18_Witness ==
  \E i \in DOMAIN calls :
    /\ calls[i].pc = "done"
    /\ calls[i].waits = <<2, 4, 8>>
    /\ RequestsSent(calls[i]) = Len(calls[i].waits) + 1

C21_DisabledExtractionSkipsKnowledgeBase ==
  (wf.pc # "idle" /\ ~wf.kw)
    => /\ wf.pc \notin {"extract", "expand"}
       /\ explanationTasks = <<>>
       /\ knowledgeBase = <<>>
       /\ (wf.pc = "done" /\ tasks[wf.task].status = "completed")
            => /\ tasks[wf.task].currentContent[1].knowledgeBase = <<>>
               /\ tasks[wf.task].currentContent[1].mainContent = sections

\* a run with extraction disabled has returned a body of all its sections
C21_Witness ==
  /\ wf.pc = "done" /\ ~wf.kw
  /\ Len(sections) = NumSections
  /\ tasks[wf.task].status = "completed"
  /\ tasks[wf.task].currentContent[1].mainContent = sections

(***************************************************************************)
(* Claims about the mock response (checked under SpecLLM)                  *)
(***************************************************************************)
\* C22: when no credential is configured, every callLLM invocation returns
\* the mock text and sends no request to a model endpoint, whether or not
\* the backend proxy is enabled.
C22_NoCredentialMeansMock ==
  \A i \in DOMAIN calls :
    ~llmEnv.hasKey
      => /\ RequestsSent(calls[i]) = 0
         /\ calls[i].pc = "done" => calls[i].result = "mock"

(***************************************************************************)
(* Claims about a run on the mock text (checked under SpecMockFair)        *)
(***************************************************************************)
\* C23: with no credential configured, so that every model call returns the
\* mock text, a run with keyword extraction enabled never throws, reaches
\* its end after the section, extraction and expansion stages have each
\* produced their part of the content, and leaves its task completed with
\* that content.
C23_MockRunCompletes ==
  /\ [](wf.pc # "failed")
  /\ []((wf.pc = "done" /\ wf.kw)
          => /\ tasks[wf.task].status = "completed"
             /\ Len(sections) = NumSections
             /\ \A k \in DOMAIN sections : sections[k].kind = "content"
             /\ knowledgeBase # <<>>
             /\ \A k \in DOMAIN knowledgeBase : knowledgeBase[k].kind = "explained"
             /\ tasks[wf.task].currentContent = <<ContentOf(Cur)>>)
  /\ ((wf.pc = "rewrite" /\ wf.kw) ~> wf.pc = "done")

C23_Witness ==
  /\ wf.pc = "done" /\ wf.kw
  /\ ~llmEnv.hasKey
  /\ tasks[wf.task].status = "completed"
  /\ Len(knowledgeBase) = MaxTerms

(***************************************************************************)
(* Claims about the Rewrite and Plan stages (checked under SpecPrompting)  *)
(***************************************************************************)
\* C24: the Rewrite stage makes at most 3 model calls, and when no call
\* yields a usable rewrite it returns the raw user input, whole, as the
\* rewritten prompt and as the title, whatever the length of the input.
C24_RawInputIsPromptAndTitle ==
  /\ stageCalls.rewrite <= MaxAttempts
  /\ (rewriteResult # NoResult /\ wf.rewritten = "raw")
       => /\ rewriteResult.rewrittenPrompt = Input(userInput)
          /\ rewriteResult.title = Input(userInput)

C26_SequentialCeilCalls ==
  /\ chunk.calls = Len(fullContent) + (IF chunk.pc = "calling" THEN 1 ELSE 0)
  /\ (chunk.pc = "returned" /\ \A k \in DOMAIN fullContent : fullContent[k] = "content")
       => /\ chunk.calls * estimatedWordsPerCall >= desiredWordCount
          /\ chunk.calls > 0 =>
               (chunk.calls - 1) * estimatedWordsPerCall < desiredWordCount

C26_Witness ==
  /\ chunk.pc = "returned"
  /\ desiredWordCount = 2 * estimatedWordsPerCall + 1
  /\ chunk.calls = 3
  /\ \A k \in DOMAIN fullContent : fullContent[k] = "content"

\* C27: when the model call for a chunk fails, generateLongContent issues no
\* call for a later chunk and throws; it never returns a concatenation that
\* holds the outcome of a failed call.
C27_FailedChunkAborts ==
  [][/\ \A o \in ChunkOutcomes \ {"content"} :
          ChunkCallSettles(o) => chunk'.pc = "threw"
     /\ (\E k \in DOMAIN fullContent : fullContent[k] # "content")
          => chunk'.calls = chunk.calls
     /\ chunk'.pc = "returned"
          => \A k \in DOMAIN fullContent' : fullContent'[k] = "content"]_vars

(***************************************************************************)
(* Claims about the progress steps (checked under SpecProgress)            *)
(***************************************************************************)
\* C28: in the list of progress steps, current never decreases from one step
\* to the next and never exceeds total, whoever reports progress and in
\* whatever order.
C28_ProgressMonotoneAndBounded ==
  \A k \in DOMAIN progressSteps :
    /\ progressSteps[k].current <= progressSteps[k].total
    /\ k > 1 => progressSteps[k - 1].current <= progressSteps[k].current

C28_Witness ==
  /\ totalSteps = WorkflowSteps
  /\ Len(progressSteps) = WorkflowSteps + 3
  /\ progressSteps[Len(progressSteps)].current = WorkflowSteps
  /\ progressSteps[Len(progressSteps)].status = "completed"

(***************************************************************************)
(* Claims about the cap of the prompt log (checked under SpecLog)          *)
(***************************************************************************)
\* C29: after any sequence of savePrompt and updatePrompt calls the prompt
\* log holds at most 1000 records; a save into a full log drops exactly the
\* oldest record and keeps the others in their order, the new record last,
\* and a save into a log below the cap drops nothing.
C29_PromptLogCapped ==
  /\ [](Len(promptHistory) <= maxPromptHistory)
  /\ [][LogSavePrompt(TRUE) =>
          LET n == Len(promptHistory) IN
            IF n = maxPromptHistory
            THEN /\ Len(promptHistory') = n
                 /\ \A k \in 1..(n - 1) : promptHistory'[k] = promptHistory[k + 1]
                 /\ promptHistory'[n].id = nextCall
            ELSE /\ Len(promptHistory') = n + 1
                 /\ \A k \in 1..n : promptHistory'[k] = promptHistory[k]
                 /\ promptHistory'[n + 1].id = nextCall]_vars

C29_Witness ==
  /\ Len(promptHistory) = maxPromptHistory
  /\ promptHistory[1].id = 2 - maxPromptHistory
  /\ promptHistory[1].status = "error"
  /\ promptHistory[maxPromptHistory].id = 1

(***************************************************************************)
(* Claims about updates of unknown tasks (checked under SpecRegistry)      *)
(***************************************************************************)
\* C30: updateTask and updateTaskProgress called with an id that is not in
\* the registry throw the not-found error and leave the registry in memory,
\* its progress entries and its persisted copy as they were.
C30_UnknownIdLeavesRegistry ==
  [][\A id \in TaskIds :
       (/\ ~Exists(tasks, id)
        /\ \/ \E updates \in RegistryUpdates : CallUpdateTask(id, updates)
           \/ CallUpdateTaskProgress(id))
         => /\ registryError' = "notFound"
            /\ tasks' = tasks
            /\ stored' = stored
            /\ taskProgress' = taskProgress]_vars

C30_Witness ==
  /\ registryError = "notFound"
  /\ \E t \in TaskIds : t < nextId /\ ~Exists(tasks, t) /\ taskProgress[t] > 0
  /\ \E t \in TaskIds : Exists(tasks, t) /\ stored[t] = tasks[t]

(***************************************************************************)
(* Claims about the requests of a proxied call (checked under SpecLLM)     *)
(***************************************************************************)
\* C39: with the backend proxy enabled, a callLLM invocation whose every
\* response is a rate-limit response (HTTP 429) sends at most
\* 1 + maxRetries = 4 requests, backend and direct requests counted together.
C39_ProxiedRetryCap ==
  \A i \in DOMAIN calls :
    (llmEnv.useBackend /\ calls[i].onlyRate)
      => calls[i].backendSent + calls[i].directSent <= 1 + maxRetries

(***************************************************************************)
(* Claims about the frame of startTask (checked under SpecTasks)           *)
(***************************************************************************)
\* C40: startTask(id) affects only the task with that id: no step of it, the
\* call up to its first await or the continuation that settles it, adds or
\* removes a task id or changes the status or content of another task.
C40_StartTaskTouchesOnlyItsTask ==
  [][/\ \A t \in TaskIds :
          CallStartTask(t) => \A u \in TaskIds \ {t} : tasks'[u] = tasks[u]
     /\ \A r \in RunIds :
          (runs[r].kind = "start" /\ (WorkflowReturns(r) \/ WorkflowThrows(r)))
            => \A u \in TaskIds \ {runs[r].outer} : tasks'[u] = tasks[u]]_vars

(***************************************************************************)
(* Claims about a rate-limited term (checked under SpecFlow)               *)
(***************************************************************************)
\* the blocks of a body that belong to the glossary entry of term i
GlossaryBlocks(body, i) ==
  {k \in DOMAIN body : body[k].title = i /\ body[k].kind \in {"explained", "fallback"}}

C34_FallbackDocumentComplete ==
  /\ wf.pc = "seqSections"
       => /\ wf.attempt + 1 <= MaxAttempts
          /\ \A k \in DOMAIN sections : sections[k].title < wf.item
  /\ (wf.item > 0 /\ wf.pc \notin {"seqSections", "idle"})
       => /\ Len(sections) = NumSections
          /\ \A k \in DOMAIN sections :
               sections[k].title = k /\ sections[k].kind \in {"content", "placeholder"}

(***************************************************************************)
(* Claims about term extraction (checked under SpecExtraction)             *)
(***************************************************************************)
\* C37: term extraction issues at most 3 model calls and never throws; after
\* 3 attempts whose responses failed to parse it returns the terms the regex
\* finds in the content, the first 10 of them at most.
C37_ExtractionFallsBackToRegex ==
  /\ extraction.calls <= 3
  /\ extraction.pc \in {"idle", "calling", "delay", "returned"}
  /\ extraction.pc = "returned" <=> extractedConcepts # NoResult
  /\ (extraction.pc = "returned" /\ extraction.failed = 3)
       => /\ extractedConcepts.kind = "regex"
          /\ extractedConcepts.n = IF contentMatches < 10 THEN contentMatches ELSE 10

\* three attempts failed on a content with more matches than the fallback keeps
C37_Witness ==
  /\ extraction = [pc |-> "returned", attempt |-> 2, calls |-> 3, failed |-> 3]
  /\ contentMatches = 11
  /\ extractedConcepts = [kind |-> "regex", n |-> 10]

(***************************************************************************)
(* Claims about the processed count (checked under SpecExpansion)          *)
(***************************************************************************)
\* the tasks of the batch that have returned
Returned(ts) == {i \in DOMAIN ts : ts[i].phase = "done"}

\* C35: during the concurrent expansion of N concepts the shared processed
\* count goes up by one each time a task settles and is reported right after,
\* so that the reported counts are 1, 2, ... up to N, in this order.
C35_ProcessedCountReportedInOrder ==
  /\ [](/\ processedCount = Cardinality(Returned(explanationTasks))
        /\ Len(progressReports) = processedCount
        /\ \A k \in DOMAIN progressReports :
             progressReports[k] = [processed |-> k, of |-> Len(explanationTasks)])
  /\ [][\A i \in 1..MaxTerms, o \in ExplanationOutcomes :
          (TrackedExplanationSettles(i, o) /\ i \in Returned(explanationTasks'))
            => /\ processedCount' = processedCount + 1
               /\ Len(progressReports') = Len(progressReports) + 1
               /\ progressReports'[Len(progressReports')].processed = processedCount']_vars

\* both tasks of a batch of two have returned, the second one first
C35_Witness ==
  /\ Len(explanationTasks) = 2
  /\ AllSettled(explanationTasks)
  /\ completionOrder = <<2, 1>>
  /\ processedCount = 2
  /\ progressReports = <<[processed |-> 1, of |-> 2], [processed |-> 2, of |-> 2]>>

(***************************************************************************)
(* Claims about concurrent prompt records (checked under SpecInterleaved)  *)
(***************************************************************************)
\* the positions of the log that hold the record of call i
RecordsOf(h, i) == {k \in DOMAIN h : h[k].id = calls[i].id}

C38_ReloadedRegistryEqualsMemory ==
  (\A t \in TaskIds : starting[t] = "none")
    => LoadTasksFromStorage(taskStore, TaskIds) = registry

(***************************************************************************)
(* Claims about the shared task slot (checked under SpecShared)            *)
(***************************************************************************)
\* C31: the one process-wide current-task slot is unsafe under concurrent
\* runs.  A model call is recorded with whatever the slot holds when the
\* call is issued: the task of the calling run as long as no other run has
\* started on the process, and, once two runs interleave, possibly the
\* other run's task or no task at all.
C31_CallRecordedWithSlotValue ==
  [][\A r \in RunIds :
       RunIssuesCall(r)
         => /\ promptHistory'[Len(promptHistory')].taskId = currentTaskId
            /\ nextRun = 2 => promptHistory'[Len(promptHistory')].taskId = runs[r].task]_vars

\* two runs are in their workflows, and a call the first one issued is
\* recorded with the task of the second
C31_Witness ==
  /\ runs[1].pc = "workflow" /\ runs[2].pc = "workflow"
  /\ runs[1].task # runs[2].task
  /\ Len(promptHistory) = 1
  /\ issuedBy = <<runs[1].task>>
  /\ promptHistory[1].taskId = runs[2].task

\* the second of two interleaved runs has settled and cleared the slot, and
\* a call the first one issued afterwards is recorded with no task
C31_RecordedWithNoTask ==
  /\ runs[1].pc = "workflow" /\ runs[2].pc = "done"
  /\ Len(promptHistory) = 1
  /\ issuedBy = <<runs[1].task>>
  /\ promptHistory[1].taskId = NoTask

====
